---- MODULE Spec2Model ----
(***************************************************************************)
(* Preventive-maintenance scheduling of acalderonq-source/MANTENIMIENTOS.  *)
(*                                                                         *)
(* The repository holds several generations of src/server.js.  The model   *)
(* carries them side by side; the variable `variante` says which           *)
(* generation of the server is running and never changes:                  *)
(*   "p005"  src/unnamed/part_005  (7-day spacing + depot capacity)        *)
(*   "p004"  src/unnamed/part_004  (workshop pools, 180-candidate search)  *)
(*   "p003"  src/unnamed/part_003  (7-day spacing, no depot capacity)      *)
(*   "p009"  src/unnamed/part_009  (task-based interval, proximaFechaPorIA)*)
(*   "p002"  src/unnamed/part_002  (45 days, fechaSinChoque; the same      *)
(*           rule as calcularProximoParaUnidad of src/src/server.js)       *)
(*                                                                         *)
(* Dates are day numbers; day 0 is a Sunday, so d % 7 is dayjs's .day().   *)
(* A dayjs value that carries a time of day (dayjs() = now) is a day       *)
(* number plus `frac` (0 = exactly midnight, 1 = later in the day).        *)
(* A DATE column that is NULL is SinFecha; a NULL cedis_id is SinCedis.    *)
(***************************************************************************)
EXTENDS Integers, Sequences, FiniteSets, TLC

VARIABLES
  variante,   \* which generation of server.js is running
  hoy,        \* today's day number (dayjs().format('YYYY-MM-DD'))
  unidades,   \* table unidades: id -> [cedis_id, estado]
  mants,      \* table mantenimientos: sequence indexed by id
  pend,       \* requests between their snapshot read and their INSERT
  res         \* what the last handler's scheduler calls computed

vars == <<variante, hoy, unidades, mants, pend, res>>

----------------------------------------------------------------------------
(* Values of the schema *)

SinFecha == 0
SinCedis == 0

Variantes == {"p005", "p004", "p003", "p009", "p002"}

\* table cedis: id -> nombre
nombreCedis == <<"CEDIS CARTAGO", "TRANSPORTADORA", "CEDIS NORTE">>
Cedis == DOMAIN nombreCedis

\* String.includes('CARTAGO') / includes('TRANSPORTADORA') on the depot name
incluyeCartago(nombre) == nombre \in {"CEDIS CARTAGO"}
incluyeTransportadora(nombre) == nombre \in {"TRANSPORTADORA"}

----------------------------------------------------------------------------
(* The fleet and the bounds of the model *)

\* units that requests are made for: 1 of Cartago, 2 of Transportadora,
\* 3 and 4 of CEDIS Norte, 5 without depot
Pedibles == 1..5
\* further units of CEDIS Norte (the rest of the fleet)
NFlota == 31
\* the unit ids of the requests: the units above and one id of no unit
UnidadesPedidas == Pedibles \cup {NFlota + 10}

\* records the handlers may insert in one behaviour that starts from an
\* empty table; one fewer from a table that already holds records
MaxNuevos == 2
\* largest number of closed records in the initial history of unit 3
MaxHist == 5
\* first day the server may be started on (day 700 is a Sunday)
Hoy0 == 700

DiasIniciales == Hoy0..(Hoy0 + 6)
DiaHistorial == Hoy0 + 3
\* days since the last visit of the initial history was closed
Edades == {10, 45, 100}
\* days the clock may advance between two requests, and how far
Saltos == {45}
HoyMax == Hoy0 + 6 + 45

Tipos == {"PREVENTIVO", "CORRECTIVO"}

cedisDeUnidad(u) ==
  CASE u = 1 -> 1
    [] u = 2 -> 2
    [] u = 5 -> SinCedis
    [] OTHER -> 3

----------------------------------------------------------------------------
(* Calendar rules and interval rule, part_005 *)

\* diasBasePorVeces with the thresholds read as "more than"
diasBasePorVeces_Mayor(veces) ==
  IF veces > 5 THEN 35
  ELSE IF veces > 3 THEN 40
  ELSE 45

diasBasePorVeces(veces) ==
  IF veces >= 5 THEN 35
  ELSE IF veces >= 3 THEN 40
  ELSE 45

esDomingo(d) == d % 7 = 0

\* a siguienteHabil that returns its input
siguienteHabil_Igual(d) == d

RECURSIVE siguienteHabil(_)
siguienteHabil(d) ==
  IF d % 7 = 0 THEN siguienteHabil(d + 1) ELSE d

\* the number of times the body of the while loop of siguienteHabil runs
RECURSIVE pasosSiguienteHabil(_)
pasosSiguienteHabil(d) ==
  IF d % 7 = 0 THEN 1 + pasosSiguienteHabil(d + 1) ELSE 0

\* Math.abs(c.diff(d, 'day')): dayjs truncates the difference toward zero, so
\* a candidate with a time of day (frac = 1) is one day "closer" to a later
\* midnight date than the calendar difference
absDiffDias(c, frac, d) ==
  IF c >= d THEN c - d
  ELSE IF frac = 1 THEN d - c - 1 ELSE d - c

\* the start dates of all records, open or closed
obtenerFechasProgramadas_Todas(M) == {M[i].fecha_inicio : i \in DOMAIN M}

\* SELECT fecha_inicio FROM mantenimientos WHERE fecha_fin IS NULL
obtenerFechasProgramadas(M) ==
  {M[i].fecha_inicio : i \in {j \in DOMAIN M : M[j].fecha_fin = SinFecha}}

\* colisiona with a window of 8 days
colisiona_Ocho(cand, frac, setFechas) ==
  \E val \in setFechas : absDiffDias(cand, frac, val) < 8

\* colisiona with a window of 6 days
colisiona_Seis(cand, frac, setFechas) ==
  \E val \in setFechas : absDiffDias(cand, frac, val) < 6

colisiona(cand, frac, setFechas) ==
  \E val \in setFechas : absDiffDias(cand, frac, val) < 7

\* the while loop of espaciar7dias run for at most n iterations; the
\* iterations are split in halves so that the evaluation stays shallow
RECURSIVE avanzar(_, _, _, _)
avanzar(f, frac, setFechas, n) ==
  IF ~(esDomingo(f) \/ colisiona(f, frac, setFechas)) THEN f
  ELSE IF n <= 1 THEN f + 1
  ELSE avanzar(avanzar(f, frac, setFechas, n \div 2),
               frac, setFechas, n - (n \div 2))

\* no date later than the latest scheduled date + 6 collides and one of two
\* consecutive days is not a Sunday: the loop never runs longer than this
pasosMax(f, setFechas) ==
  LET tope == CHOOSE m \in setFechas \cup {f} :
                \A x \in setFechas \cup {f} : x <= m
  IN tope + 9 - f

espaciar7dias(f, frac, setFechas) ==
  avanzar(f, frac, setFechas, pasosMax(f, setFechas))

capacidadPorCedis(cedisId) ==
  IF cedisId = SinCedis THEN 1
  ELSE IF incluyeCartago(nombreCedis[cedisId])
          \/ incluyeTransportadora(nombreCedis[cedisId])
       THEN 5 ELSE 1

\* cntCedisFecha that counts the closed records too
cntCedisFecha_Cerrados(M, cedisId, fecha) ==
  Cardinality({i \in DOMAIN M : /\ M[i].cedis_id = cedisId
                                /\ M[i].fecha_inicio = fecha})

\* SELECT COUNT(*) FROM mantenimientos
\*  WHERE cedis_id=? AND fecha_inicio=? AND fecha_fin IS NULL
cntCedisFecha(M, cedisId, fecha) ==
  Cardinality({i \in DOMAIN M : /\ M[i].cedis_id = cedisId
                                /\ M[i].fecha_inicio = fecha
                                /\ M[i].fecha_fin = SinFecha})

RECURSIVE asignarDesde(_, _, _, _, _)
asignarDesde(d0, setFechas, cupo, M, cedisId) ==
  LET d == espaciar7dias(siguienteHabil(d0), 0, setFechas)
  IN IF cntCedisFecha(M, cedisId, d) < cupo THEN d
     ELSE asignarDesde(d + 1, setFechas, cupo, M, cedisId)

asignarFechaConCapacidad(M, cedisId, baseISO) ==
  asignarDesde(baseISO, obtenerFechasProgramadas(M),
               capacidadPorCedis(cedisId), M, cedisId)

\* ids of the records of a unit, and the one with the highest id (0 = none)
idsDeUnidad(M, unidadId) == {i \in DOMAIN M : M[i].unidad_id = unidadId}
ultimoDe(M, unidadId) ==
  IF idsDeUnidad(M, unidadId) = {} THEN 0
  ELSE CHOOSE i \in idsDeUnidad(M, unidadId) :
         \A j \in idsDeUnidad(M, unidadId) : j <= i

\* fechaRef that always takes the start date
fechaRef_Inicio(r) == r.fecha_inicio

\* ultimo.fecha_fin || ultimo.fecha_inicio
fechaRef(r) == IF r.fecha_fin # SinFecha THEN r.fecha_fin ELSE r.fecha_inicio

\* baseDias005 without the cap for a corrective last visit
baseDias005_SinTope(M, unidadId) ==
  diasBasePorVeces(Cardinality(idsDeUnidad(M, unidadId)))

baseDias005(M, unidadId) ==
  LET veces == Cardinality(idsDeUnidad(M, unidadId))
      ult == ultimoDe(M, unidadId)
      porVeces == diasBasePorVeces(veces)
  IN IF ult # 0 /\ M[ult].tipo = "CORRECTIVO"
     THEN IF porVeces < 30 THEN porVeces ELSE 30
     ELSE porVeces

\* [dias, base, fecha]: the interval, the base date and the date returned
calcularProximaFecha005(M, unidadId, ahora, frac) ==
  LET ult == ultimoDe(M, unidadId)
      dias == baseDias005(M, unidadId)
      base == IF ult = 0 THEN ahora + dias ELSE fechaRef(M[ult]) + dias
      fr == IF ult = 0 THEN frac ELSE 0
  IN [dias |-> dias, base |-> base,
      fecha |-> espaciar7dias(siguienteHabil(base), fr,
                              obtenerFechasProgramadas(M))]

----------------------------------------------------------------------------
(* Workshop pools and the 180-candidate search, part_004 *)

\* normalizaFuturo without the step off a Sunday
normalizaFuturo_SinDomingo(base, ahora) ==
  IF base < ahora THEN ahora + 1 ELSE base

normalizaFuturo(base, ahora) ==
  LET f == IF base < ahora THEN ahora + 1 ELSE base
  IN IF esDomingo(f) THEN f + 1 ELSE f

colisiona7Dias(iso, setFechas) ==
  \E val \in setFechas :
    (IF iso >= val THEN iso - val ELSE val - iso) < 7

resolveWorkshopKey(cedisId) ==
  IF cedisId = SinCedis THEN "WORK_OTHER"
  ELSE IF cedisId \in Cedis
          /\ (incluyeCartago(nombreCedis[cedisId])
              \/ incluyeTransportadora(nombreCedis[cedisId]))
       THEN "WORK_CARTAGO_TRANSP"
       ELSE "WORK_ID"

\* [cedisIds, maxPorDia]
workshopInfo(cedisId) ==
  IF resolveWorkshopKey(cedisId) = "WORK_CARTAGO_TRANSP"
  THEN [cedisIds |-> {c \in Cedis : incluyeCartago(nombreCedis[c])
                                    \/ incluyeTransportadora(nombreCedis[c])},
        maxPorDia |-> 5]
  ELSE [cedisIds |-> IF cedisId = SinCedis THEN {} ELSE {cedisId},
        maxPorDia |-> 1]

\* abiertosDelTaller without the restriction to the pool's depots
abiertosDelTaller_Todos(M, U, cedisId) ==
  {i \in DOMAIN M : M[i].fecha_fin = SinFecha}

\* open records JOIN unidades, restricted to the pool's depots when it has any
abiertosDelTaller(M, U, cedisId) ==
  LET ids == workshopInfo(cedisId).cedisIds
  IN {i \in DOMAIN M : /\ M[i].fecha_fin = SinFecha
                       /\ (ids = {} \/ U[M[i].unidad_id].cedis_id \in ids)}

\* the Map porDia: date -> number of open records of the pool on that date
fechasProgramadasPorDia(M, U, cedisId) ==
  [d \in {M[i].fecha_inicio : i \in abiertosDelTaller(M, U, cedisId)} |->
     Cardinality({i \in abiertosDelTaller(M, U, cedisId) : M[i].fecha_inicio = d})]

setFechasProgramadas(M, U, cedisId) ==
  {M[i].fecha_inicio : i \in abiertosDelTaller(M, U, cedisId)}

Horizonte == 180

\* porDia.get(iso) || 0 as primerDiaDisponible reads it for the pool of cedisId
cntTaller(M, U, cedisId, iso) ==
  LET porDia == fechasProgramadasPorDia(M, U, cedisId)
  IN IF iso \in DOMAIN porDia THEN porDia[iso] ELSE 0

\* the test of one candidate day: porDia.get(iso) || 0 is below maxPorDia
\* and the day is 7 days away from every date of set
diaLibre(iso, set, porDia, maxPorDia) ==
  /\ ~colisiona7Dias(iso, set)
  /\ (IF iso \in DOMAIN porDia THEN porDia[iso] ELSE 0) < maxPorDia

\* n iterations of the for loop of primerDiaDisponible from x = [fecha, i, ok]
\* (ok: the loop has returned fecha); split in halves to stay shallow
RECURSIVE buscarDia(_, _, _, _, _)
buscarDia(x, n, set, porDia, maxPorDia) ==
  IF x.ok \/ n = 0 THEN x
  ELSE IF n = 1
  THEN IF diaLibre(x.fecha, set, porDia, maxPorDia)
       THEN [x EXCEPT !.ok = TRUE]
       ELSE [fecha |-> IF esDomingo(x.fecha + 1) THEN x.fecha + 2
                       ELSE x.fecha + 1,
             i |-> x.i + 1, ok |-> FALSE]
  ELSE buscarDia(buscarDia(x, n \div 2, set, porDia, maxPorDia),
                 n - (n \div 2), set, porDia, maxPorDia)

\* the loop's outcome; ok = FALSE is the fallback return after 180 candidates
busqueda(M, U, base, ahora, cedisId) ==
  buscarDia([fecha |-> normalizaFuturo(base, ahora), i |-> 0, ok |-> FALSE],
            Horizonte,
            setFechasProgramadas(M, U, cedisId),
            fechasProgramadasPorDia(M, U, cedisId),
            workshopInfo(cedisId).maxPorDia)

primerDiaDisponible(M, U, base, ahora, cedisId) ==
  busqueda(M, U, base, ahora, cedisId).fecha

\* task labels of the closing form; "Otro" is a label no rule knows
Trabajos == {"Cambio de aceite", "Filtro de aire", "Pastillas/frenos",
             "Alineacion/balanceo", "Rotacion de llantas",
             "Liquidos (freno/refrigerante)", "Revision general", "Otro"}

\* h.includes(p) for some p of pesados
esPesado(h) ==
  h \in {"Cambio de aceite", "Filtro de aire", "Pastillas/frenos",
         "Alineacion/balanceo"}

baseDias004(M, unidadId, trabajosHechos) ==
  LET veces == Cardinality(idsDeUnidad(M, unidadId))
      ult == ultimoDe(M, unidadId)
      porVeces == diasBasePorVeces(veces)
      porTipo == IF ult # 0 /\ M[ult].tipo = "CORRECTIVO"
                 THEN (IF porVeces < 30 THEN porVeces ELSE 30)
                 ELSE porVeces
  IN IF \E h \in trabajosHechos : esPesado(h)
     THEN (IF porTipo - 5 > 20 THEN porTipo - 5 ELSE 20)
     ELSE porTipo

calcularProximaFecha004(M, U, unidadId, trabajosHechos, cedisId, ahora) ==
  LET ult == ultimoDe(M, unidadId)
      dias == baseDias004(M, unidadId, trabajosHechos)
      base == IF ult # 0 THEN fechaRef(M[ult]) + dias ELSE ahora + dias
  IN [dias |-> dias, base |-> base,
      fecha |-> primerDiaDisponible(M, U, base, ahora, cedisId)]

----------------------------------------------------------------------------
(* Task-based interval, part_009 *)

WORK_RULES(x) ==
  CASE x = "Cambio de aceite" -> 45
    [] x = "Filtro de aire" -> 60
    [] x = "Pastillas/frenos" -> 30
    [] x = "Alineacion/balanceo" -> 60
    [] x = "Rotacion de llantas" -> 90
    [] x = "Liquidos (freno/refrigerante)" -> 60
    [] x = "Revision general" -> 45
    [] OTHER -> 0

\* diasBasePorTrabajos that takes the longest interval of the tasks
diasBasePorTrabajos_Max(trabajos) ==
  LET cand == {WORK_RULES(x) : x \in trabajos} \ {0}
  IN IF trabajos = {} \/ cand = {} THEN 45
     ELSE CHOOSE m \in cand : \A n \in cand : m >= n

diasBasePorTrabajos(trabajos) ==
  LET cand == {WORK_RULES(x) : x \in trabajos} \ {0}
  IN IF trabajos = {} \/ cand = {} THEN 45
     ELSE CHOOSE m \in cand : \A n \in cand : m <= n

dBase009(M, unidadId, trabajos) ==
  LET ult == ultimoDe(M, unidadId)
      porTrabajos == diasBasePorTrabajos(trabajos)
  IN IF ult # 0 /\ M[ult].tipo = "CORRECTIVO"
     THEN (IF porTrabajos < 30 THEN porTrabajos ELSE 30)
     ELSE porTrabajos

proximaFechaPorIA(M, unidadId, trabajos, ahora) ==
  LET ult == ultimoDe(M, unidadId)
      dias == dBase009(M, unidadId, trabajos)
      base == (IF ult # 0 THEN fechaRef(M[ult]) ELSE ahora) + dias
  IN [dias |-> dias, base |-> base,
      fecha |-> espaciar7dias(siguienteHabil(base), 0,
                              obtenerFechasProgramadas(M))]

----------------------------------------------------------------------------
(* Fixed 45 days and same-day clash, part_002 and src/src/server.js *)

siguienteNoDomingo(d) == IF d % 7 = 0 THEN d + 1 ELSE d

\* unidades.placa is UNIQUE NOT NULL: the plate of a unit is its id, and
\* SinPlaca is excluirPlaca = null
SinPlaca == 0

\* rows.some(r => r.placa !== excluirPlaca) over the open records that start
\* on the day `fecha`
hayChoque(M, fecha, excluirPlaca) ==
  \E i \in DOMAIN M : /\ M[i].fecha_fin = SinFecha
                      /\ M[i].fecha_inicio = fecha
                      /\ M[i].unidad_id # excluirPlaca

\* fechaSinChoqueExcl that steps one day on without skipping the Sunday
RECURSIVE fechaSinChoqueExcl_SinSalto(_, _, _)
fechaSinChoqueExcl_SinSalto(M, d, excluirPlaca) ==
  IF ~hayChoque(M, d, excluirPlaca) THEN d
  ELSE fechaSinChoqueExcl_SinSalto(M, d + 1, excluirPlaca)

\* the loop of fechaSinChoque(fechaBase, excluirPlaca)
RECURSIVE fechaSinChoqueExcl(_, _, _)
fechaSinChoqueExcl(M, d, excluirPlaca) ==
  IF ~hayChoque(M, d, excluirPlaca) THEN d
  ELSE fechaSinChoqueExcl(M, IF esDomingo(d + 1) THEN d + 2 ELSE d + 1,
                          excluirPlaca)

\* fechaSinChoque with excluirPlaca = null, as every caller uses it
fechaSinChoque(M, d) == fechaSinChoqueExcl(M, d, SinPlaca)

\* [dias, base, fecha]
calcularProximoParaUnidad(M, unidadId, ahora) ==
  LET ult == ultimoDe(M, unidadId)
      base == (IF ult # 0 THEN fechaRef(M[ult]) ELSE ahora) + 45
  IN [dias |-> 45, base |-> base,
      fecha |-> fechaSinChoque(M, IF esDomingo(base)
                                  THEN siguienteNoDomingo(base) ELSE base)]

----------------------------------------------------------------------------
(* Tables *)

Mant(u, c, tipo, motivo, ini, fin, reservado) ==
  [unidad_id |-> u, cedis_id |-> c, tipo |-> tipo, motivo |-> motivo,
   fecha_inicio |-> ini, fecha_fin |-> fin, reservado_inventario |-> reservado]

abiertosDe(M, unidadId) ==
  {i \in DOMAIN M : M[i].unidad_id = unidadId /\ M[i].fecha_fin = SinFecha}

\* records written by the handlers of this run (the others were in the
\* database when the server started)
nuevos(M) == Cardinality({i \in DOMAIN M : M[i].motivo # "inicial"})

\* the exploration bound on the handlers that insert
hayPresupuesto(M) ==
  IF \E i \in DOMAIN M : M[i].motivo = "inicial"
  THEN nuevos(M) < MaxNuevos - 1
  ELSE nuevos(M) < MaxNuevos

\* n closed visits of unit u, the last one of kind tipoUlt closed on finUlt
historialCerrado(u, n, tipoUlt, finUlt) ==
  [j \in 1..n |->
     Mant(u, cedisDeUnidad(u), IF j = n THEN tipoUlt ELSE "PREVENTIVO",
          "inicial", finUlt - 50 * (n - j) - 1, finUlt - 50 * (n - j), 0)]

\* an open visit that started 3 days ago and is still in the workshop
abiertoAtrasado(u, ahora) ==
  <<Mant(u, cedisDeUnidad(u), "PREVENTIVO", "inicial", ahora - 3, SinFecha, 1)>>

\* an open visit of unit u followed by a later visit of kind tipoUlt that was
\* closed on finUlt
abiertoConHistorial(u, ahora, tipoUlt, finUlt) ==
  abiertoAtrasado(u, ahora)
  \o <<Mant(u, cedisDeUnidad(u), tipoUlt, "inicial", finUlt - 1, finUlt, 0)>>

\* an open visit of unit u booked for the day `dia`
abiertoFuturo(u, dia) ==
  <<Mant(u, cedisDeUnidad(u), "PREVENTIVO", "inicial", dia, SinFecha, 1)>>

\* the calendar a depot batch leaves for the fleet units of CEDIS Norte:
\* one open visit every 7 days from the first working day 45 days ahead
calendarioFlota(ahora) ==
  [k \in 1..NFlota |->
     Mant(5 + k, 3, "PREVENTIVO", "inicial",
          siguienteHabil(ahora + 45) + 7 * (k - 1), SinFecha, 1)]

\* the tables the server may be started on: on any day of the week an empty
\* table or one overdue visit; on DiaHistorial a history of unit 3, an open
\* visit of unit 3 with a later closed one, a visit of unit 4 booked 52 days
\* ahead, or the booked calendar of the fleet
BasesIniciales(ahora) ==
  {<<>>, abiertoAtrasado(4, ahora)}
  \cup (IF ahora = DiaHistorial
        THEN {historialCerrado(3, n, t, ahora - e) :
                n \in 1..MaxHist, t \in Tipos, e \in Edades}
             \cup {abiertoConHistorial(3, ahora, t, ahora - e) :
                     t \in Tipos, e \in Edades}
             \cup {abiertoFuturo(4, ahora + 52)}
             \cup {calendarioFlota(ahora)}
        ELSE {})

estadoInicial(M, u) ==
  IF abiertosDe(M, u) # {} THEN "EN_TALLER" ELSE "ACTIVA"

Init ==
  /\ variante \in Variantes
  /\ hoy \in DiasIniciales
  /\ mants \in BasesIniciales(hoy)
  /\ unidades = [u \in Pedibles \cup {mants[i].unidad_id : i \in DOMAIN mants} |->
                   [cedis_id |-> cedisDeUnidad(u),
                    estado |-> estadoInicial(mants, u)]]
  /\ pend = {}
  /\ res = <<>>

----------------------------------------------------------------------------
(* What one scheduler call computed, kept for the properties *)

\* open records on `fecha` whose depot is in the capacity group of cedisId
cntGrupo(M, U, cedisId, fecha) ==
  Cardinality({i \in DOMAIN M :
     /\ M[i].fecha_fin = SinFecha
     /\ M[i].fecha_inicio = fecha
     /\ IF capacidadPorCedis(cedisId) = 5
        THEN M[i].cedis_id # SinCedis /\ capacidadPorCedis(M[i].cedis_id) = 5
        ELSE M[i].cedis_id = cedisId})

Resultado(op, u, c, dias, base, previa, fecha, setF, cnt, cupo, agot, cerrado, M) ==
  [op |-> op, unidad |-> u, cedis |-> c, hoy |-> hoy,
   veces |-> Cardinality(idsDeUnidad(M, u)),
   tipoUlt |-> IF ultimoDe(M, u) = 0 THEN "NINGUNO" ELSE M[ultimoDe(M, u)].tipo,
   estadoAntes |-> unidades[u].estado,
   dias |-> dias, base |-> base, previa |-> previa, fecha |-> fecha,
   set |-> setF, cnt |-> cnt, cntPrevia |-> cntGrupo(M, unidades, c, previa),
   cupo |-> cupo, agotado |-> agot,
   cerrado |-> cerrado, trabajos |-> {}, cntLeida |-> cnt, fase |-> "asignado",
   id |-> Len(M) + 1]

----------------------------------------------------------------------------
(* POST /unidades/:id/programar *)

\* part_005: calcularProximaFecha, then asignarFechaConCapacidad when the unit
\* has a depot; INSERT; UPDATE unidades SET estado='EN_TALLER'
Programar005(unidadId, frac) ==
  LET cedisId == unidades[unidadId].cedis_id
      c == calcularProximaFecha005(mants, unidadId, hoy, frac)
      fechaProgramada == IF cedisId # SinCedis
                         THEN asignarFechaConCapacidad(mants, cedisId, c.fecha)
                         ELSE c.fecha
  IN /\ mants' = Append(mants, Mant(unidadId, cedisId, "PREVENTIVO",
                                    "Programado manualmente",
                                    fechaProgramada, SinFecha, 1))
     /\ unidades' = [unidades EXCEPT ![unidadId].estado = "EN_TALLER"]
     /\ res' = <<[Resultado("programar", unidadId, cedisId, c.dias, c.base,
                            c.fecha, fechaProgramada,
                            obtenerFechasProgramadas(mants),
                            cntGrupo(mants, unidades, cedisId, fechaProgramada),
                            capacidadPorCedis(cedisId), FALSE, 0, mants)
                  EXCEPT !.cntLeida = cntCedisFecha(mants, cedisId,
                                                    fechaProgramada)]>>

\* part_004: calcularProximaFecha, primerDiaDisponible again, INSERT
Programar004(unidadId) ==
  LET cedisId == unidades[unidadId].cedis_id
      c == calcularProximaFecha004(mants, unidades, unidadId, {}, cedisId, hoy)
      asignada == primerDiaDisponible(mants, unidades, c.fecha, hoy, cedisId)
  IN /\ mants' = Append(mants, Mant(unidadId, cedisId, "PREVENTIVO",
                                    "Plan preventivo sugerido",
                                    asignada, SinFecha, 1))
     /\ unidades' = unidades
     /\ res' = <<[Resultado("programar", unidadId, cedisId, c.dias, c.base,
                            c.fecha, asignada,
                            setFechasProgramadas(mants, unidades, cedisId),
                            cntGrupo(mants, unidades, cedisId, asignada),
                            workshopInfo(cedisId).maxPorDia,
                            ~busqueda(mants, unidades, c.base, hoy, cedisId).ok,
                            0, mants)
                  EXCEPT !.cntLeida = cntTaller(mants, unidades, cedisId,
                                                asignada)]>>

\* part_009: proximaFechaPorIA with no task, INSERT
Programar009(unidadId) ==
  LET cedisId == unidades[unidadId].cedis_id
      c == proximaFechaPorIA(mants, unidadId, {}, hoy)
  IN /\ mants' = Append(mants, Mant(unidadId, cedisId, "PREVENTIVO",
                                    "Plan preventivo sugerido",
                                    c.fecha, SinFecha, 1))
     /\ unidades' = unidades
     /\ res' = <<Resultado("programar", unidadId, cedisId, c.dias, c.base,
                           c.fecha, c.fecha,
                           obtenerFechasProgramadas(mants),
                           cntGrupo(mants, unidades, cedisId, c.fecha),
                           1, FALSE, 0, mants)>>

\* part_003, POST /api/ia/programar: calcularProximaFecha (the same function
\* as in part_005, no depot capacity), INSERT
Programar003(unidadId, frac) ==
  LET cedisId == unidades[unidadId].cedis_id
      c == calcularProximaFecha005(mants, unidadId, hoy, frac)
  IN /\ mants' = Append(mants, Mant(unidadId, cedisId, "PREVENTIVO",
                                    "Plan preventivo sugerido",
                                    c.fecha, SinFecha, 1))
     /\ unidades' = unidades
     /\ res' = <<Resultado("programar", unidadId, cedisId, c.dias, c.base,
                           c.fecha, c.fecha,
                           obtenerFechasProgramadas(mants),
                           cntGrupo(mants, unidades, cedisId, c.fecha),
                           1, FALSE, 0, mants)>>

\* part_002: 45 days from the last record, fechaSinChoque, INSERT
Programar002(unidadId) ==
  LET cedisId == unidades[unidadId].cedis_id
      c == calcularProximoParaUnidad(mants, unidadId, hoy)
  IN /\ mants' = Append(mants, Mant(unidadId, cedisId, "PREVENTIVO",
                                    "Plan preventivo sugerido",
                                    c.fecha, SinFecha, 1))
     /\ unidades' = unidades
     /\ res' = <<Resultado("programar", unidadId, cedisId, c.dias, c.base,
                           c.fecha, c.fecha,
                           obtenerFechasProgramadas(mants),
                           cntGrupo(mants, unidades, cedisId, c.fecha),
                           1, FALSE, 0, mants)>>

\* the answer of a handler that returns before it writes anything
Rechazo_500(ruta, status, pedido) ==
  [op |-> "rechazo", ruta |-> ruta, status |-> 500, pedido |-> pedido]

Rechazo(ruta, status, pedido) ==
  [op |-> "rechazo", ruta |-> ruta, status |-> status, pedido |-> pedido]

\* SELECT * FROM unidades WHERE id=? ; if (!unidad) return res.status(404)
\* (part_005 295, part_004 295, part_003 350, part_009 230)
Programar(unidadId, frac) ==
  /\ pend = {}
  /\ IF unidadId \notin DOMAIN unidades
     THEN /\ variante # "p002" /\ frac = 0
          /\ res' = <<Rechazo("programar", 404, unidadId)>>
          /\ UNCHANGED <<mants, unidades>>
     ELSE /\ hayPresupuesto(mants)
          /\ CASE variante = "p005" -> Programar005(unidadId, frac)
               [] variante = "p004" -> frac = 0 /\ Programar004(unidadId)
               [] variante = "p003" -> Programar003(unidadId, frac)
               [] variante = "p009" -> frac = 0 /\ Programar009(unidadId)
               [] variante = "p002" -> frac = 0 /\ Programar002(unidadId)
  /\ UNCHANGED <<variante, hoy, pend>>

----------------------------------------------------------------------------
(* POST /mantenimientos/:id/realizado *)

\* UPDATE mantenimientos SET fecha_fin=hoy, reservado_inventario=0 WHERE id=?
cerrado(M, mantId, ahora) ==
  [M EXCEPT ![mantId].fecha_fin = ahora, ![mantId].reservado_inventario = 0]

\* UPDATE unidades SET estado='ACTIVA' when the unit has no open record left
liberada(M, U, unidadId) ==
  IF abiertosDe(M, unidadId) = {}
  THEN [U EXCEPT ![unidadId].estado = "ACTIVA"]
  ELSE U

Cerrar005(mantId) ==
  LET M1 == cerrado(mants, mantId, hoy)
      unidadId == mants[mantId].unidad_id
      U1 == liberada(M1, unidades, unidadId)
      c == calcularProximaFecha005(M1, unidadId, hoy, 1)
      cedisId == IF U1[unidadId].cedis_id # SinCedis
                 THEN U1[unidadId].cedis_id ELSE mants[mantId].cedis_id
      fechaProgramada == IF cedisId # SinCedis
                         THEN asignarFechaConCapacidad(M1, cedisId, c.fecha)
                         ELSE c.fecha
  IN /\ mants' = Append(M1, Mant(unidadId, cedisId, "PREVENTIVO",
                                 "Plan preventivo sugerido",
                                 fechaProgramada, SinFecha, 1))
     /\ unidades' = U1
     /\ res' = <<[Resultado("cerrar", unidadId, cedisId, c.dias, c.base,
                            c.fecha, fechaProgramada,
                            obtenerFechasProgramadas(M1),
                            cntGrupo(M1, U1, cedisId, fechaProgramada),
                            capacidadPorCedis(cedisId), FALSE, mantId, M1)
                  EXCEPT !.cntLeida = cntCedisFecha(M1, cedisId,
                                                    fechaProgramada)]>>

Cerrar004(mantId, trabajos) ==
  LET M1 == cerrado(mants, mantId, hoy)
      unidadId == mants[mantId].unidad_id
      U1 == liberada(M1, unidades, unidadId)
      cedisId == mants[mantId].cedis_id
      c == calcularProximaFecha004(M1, U1, unidadId, trabajos, cedisId, hoy)
      asignada == primerDiaDisponible(M1, U1, c.fecha, hoy, cedisId)
  IN /\ mants' = Append(M1, Mant(unidadId, cedisId, "PREVENTIVO",
                                 "Plan preventivo sugerido",
                                 asignada, SinFecha, 1))
     /\ unidades' = U1
     /\ res' = <<[Resultado("cerrar", unidadId, cedisId, c.dias, c.base,
                            c.fecha, asignada,
                            setFechasProgramadas(M1, U1, cedisId),
                            cntGrupo(M1, U1, cedisId, asignada),
                            workshopInfo(cedisId).maxPorDia,
                            ~busqueda(M1, U1, c.base, hoy, cedisId).ok,
                            mantId, M1)
                  EXCEPT !.trabajos = trabajos,
                         !.cntLeida = cntTaller(M1, U1, cedisId, asignada)]>>

Cerrar009(mantId, trabajos) ==
  LET M1 == cerrado(mants, mantId, hoy)
      unidadId == mants[mantId].unidad_id
      U1 == liberada(M1, unidades, unidadId)
      cedisId == mants[mantId].cedis_id
      c == proximaFechaPorIA(M1, unidadId, trabajos, hoy)
  IN /\ mants' = Append(M1, Mant(unidadId, cedisId, "PREVENTIVO",
                                 "Plan preventivo sugerido",
                                 c.fecha, SinFecha, 1))
     /\ unidades' = U1
     /\ res' = <<[Resultado("cerrar", unidadId, cedisId, c.dias, c.base,
                            c.fecha, c.fecha,
                            obtenerFechasProgramadas(M1),
                            cntGrupo(M1, U1, cedisId, c.fecha),
                            1, FALSE, mantId, M1) EXCEPT !.trabajos = trabajos]>>

\* UPDATE mantenimientos SET fecha_fin=hoy, duracion_dias=... WHERE id=?
cerrado002(M, mantId, ahora) ==
  [M EXCEPT ![mantId].fecha_fin = ahora]

\* part_003: UPDATE (fecha_fin, duracion_dias, motivo), ACTIVA when no record
\* of the unit is open, calcularProximaFecha, INSERT with the depot of the
\* closed record
Cerrar003(mantId) ==
  LET M1 == cerrado002(mants, mantId, hoy)
      unidadId == mants[mantId].unidad_id
      U1 == liberada(M1, unidades, unidadId)
      c == calcularProximaFecha005(M1, unidadId, hoy, 1)
      cedisId == mants[mantId].cedis_id
  IN /\ mants' = Append(M1, Mant(unidadId, cedisId, "PREVENTIVO",
                                 "Plan preventivo sugerido",
                                 c.fecha, SinFecha, 1))
     /\ unidades' = U1
     /\ res' = <<Resultado("cerrar", unidadId, cedisId, c.dias, c.base,
                           c.fecha, c.fecha,
                           obtenerFechasProgramadas(M1),
                           cntGrupo(M1, U1, cedisId, c.fecha),
                           1, FALSE, mantId, M1)>>

\* part_002: UPDATE, then 45 days from today, fechaSinChoque, INSERT, and
\* only then the count of the unit's open records that decides on ACTIVA
Cerrar002(mantId) ==
  LET M1 == cerrado002(mants, mantId, hoy)
      unidadId == mants[mantId].unidad_id
      cedisId == unidades[unidadId].cedis_id
      base == hoy + 45
      candidata == fechaSinChoque(M1, IF esDomingo(base)
                                      THEN siguienteNoDomingo(base) ELSE base)
      M2 == Append(M1, Mant(unidadId, cedisId, "PREVENTIVO",
                            "Preventivo programado", candidata, SinFecha, 1))
  IN /\ mants' = M2
     /\ unidades' = liberada(M2, unidades, unidadId)
     /\ res' = <<Resultado("cerrar", unidadId, cedisId, 45, base,
                           candidata, candidata,
                           obtenerFechasProgramadas(M1),
                           cntGrupo(M1, unidades, cedisId, candidata),
                           1, FALSE, mantId, M1)>>

\* the task sets a closing form is sent with
TrabajosPedidos ==
  {{}, {"Pastillas/frenos", "Filtro de aire"}, {"Rotacion de llantas", "Otro"},
   {"Otro"}}

\* SELECT * FROM mantenimientos WHERE id=? ; if (!mant) return
\* res.status(404) (part_005 482, part_004 382, part_003 278, part_009 309);
\* part_002 199 redirects to the list after an UPDATE that matched no row
Cerrar(mantId, trabajos) ==
  /\ pend = {}
  /\ IF mantId \notin DOMAIN mants
     THEN /\ trabajos = {}
          /\ res' = <<Rechazo("cerrar", IF variante = "p002" THEN 302 ELSE 404,
                              mantId)>>
          /\ UNCHANGED <<mants, unidades>>
     ELSE /\ mants[mantId].unidad_id \in Pedibles
          /\ hayPresupuesto(mants)
          /\ CASE variante = "p005" -> trabajos = {} /\ Cerrar005(mantId)
               [] variante = "p004" -> Cerrar004(mantId, trabajos)
               [] variante = "p003" -> trabajos = {} /\ Cerrar003(mantId)
               [] variante = "p009" -> Cerrar009(mantId, trabajos)
               [] variante = "p002" -> trabajos = {} /\ Cerrar002(mantId)
  /\ UNCHANGED <<variante, hoy, pend>>

----------------------------------------------------------------------------
(* POST /cedis/:cedisId/programar of part_005: every free unit of a depot *)

\* the SELECT: ACTIVA units of the depot without an open record
unidadesLibres(M, U, cedisId) ==
  {u \in DOMAIN U : /\ U[u].cedis_id = cedisId
                     /\ U[u].estado = "ACTIVA"
                     /\ abiertosDe(M, u) = {}}

\* the exploration bound on the batch: all its inserts fit in the budget
cabenNuevos(M, n) ==
  nuevos(M) + n <= (IF \E i \in DOMAIN M : M[i].motivo = "inicial"
                    THEN MaxNuevos - 1 ELSE MaxNuevos)

\* a batch that computes every date on the table it found when it started
RECURSIVE loteCedis_SinReleer(_, _, _, _, _, _)
loteCedis_SinReleer(M, U, R, libres, cedisId, frac) ==
  IF libres = {} THEN [M |-> M, U |-> U, R |-> R]
  ELSE LET u == CHOOSE x \in libres : \A y \in libres : x <= y
           M0 == SubSeq(M, 1, Len(M) - Len(R))
           c == calcularProximaFecha005(M0, u, hoy, frac)
           fecha == asignarFechaConCapacidad(M0, cedisId, c.fecha)
           r == [Resultado("lote", u, cedisId, c.dias, c.base, c.fecha, fecha,
                           obtenerFechasProgramadas(M0),
                           cntGrupo(M, U, cedisId, fecha),
                           capacidadPorCedis(cedisId), FALSE, 0, M)
                 EXCEPT !.cntLeida = cntCedisFecha(M0, cedisId, fecha)]
       IN loteCedis_SinReleer(
            Append(M, Mant(u, cedisId, "PREVENTIVO", "Programado por CEDIS",
                           fecha, SinFecha, 1)),
            [U EXCEPT ![u].estado = "EN_TALLER"],
            Append(R, r), libres \ {u}, cedisId, frac)

\* the for loop over the selected units in id order: calcularProximaFecha,
\* asignarFechaConCapacidad, INSERT, UPDATE unidades SET estado='EN_TALLER'
RECURSIVE loteCedis(_, _, _, _, _, _)
loteCedis(M, U, R, libres, cedisId, frac) ==
  IF libres = {} THEN [M |-> M, U |-> U, R |-> R]
  ELSE LET u == CHOOSE x \in libres : \A y \in libres : x <= y
           c == calcularProximaFecha005(M, u, hoy, frac)
           fecha == asignarFechaConCapacidad(M, cedisId, c.fecha)
           r == [Resultado("lote", u, cedisId, c.dias, c.base, c.fecha, fecha,
                           obtenerFechasProgramadas(M),
                           cntGrupo(M, U, cedisId, fecha),
                           capacidadPorCedis(cedisId), FALSE, 0, M)
                 EXCEPT !.cntLeida = cntCedisFecha(M, cedisId, fecha)]
       IN loteCedis(
            Append(M, Mant(u, cedisId, "PREVENTIVO", "Programado por CEDIS",
                           fecha, SinFecha, 1)),
            [U EXCEPT ![u].estado = "EN_TALLER"],
            Append(R, r), libres \ {u}, cedisId, frac)

ProgramarCedis(cedisId, frac) ==
  LET libres == unidadesLibres(mants, unidades, cedisId)
      fin == loteCedis(mants, unidades, <<>>, libres, cedisId, frac)
  IN /\ variante = "p005"
     /\ pend = {}
     /\ cabenNuevos(mants, Cardinality(libres))
     /\ mants' = fin.M
     /\ unidades' = fin.U
     /\ res' = fin.R
     /\ UNCHANGED <<variante, hoy, pend>>

----------------------------------------------------------------------------
(* POST /mantenimientos/programar-cede of part_004: every ACTIVA unit of a *)
(* depot                                                                   *)

\* the exploration bound on the records of the table when a depot batch of
\* part_004 starts
MaxLote == 4

\* SELECT * FROM unidades WHERE cedis_id=? AND estado='ACTIVA'
unidadesActivas(U, cedisId) ==
  {u \in DOMAIN U : U[u].cedis_id = cedisId /\ U[u].estado = "ACTIVA"}

\* the for loop over the selected units in id order: calcularProximaFecha,
\* primerDiaDisponible, INSERT
RECURSIVE loteCede(_, _, _, _, _)
loteCede(M, U, R, activas, cedisId) ==
  IF activas = {} THEN [M |-> M, U |-> U, R |-> R]
  ELSE LET u == CHOOSE x \in activas : \A y \in activas : x <= y
           c == calcularProximaFecha004(M, U, u, {}, cedisId, hoy)
           asignada == primerDiaDisponible(M, U, c.fecha, hoy, cedisId)
           r == [Resultado("lote", u, cedisId, c.dias, c.base, c.fecha,
                           asignada, setFechasProgramadas(M, U, cedisId),
                           cntGrupo(M, U, cedisId, asignada),
                           workshopInfo(cedisId).maxPorDia,
                           ~busqueda(M, U, c.base, hoy, cedisId).ok, 0, M)
                 EXCEPT !.cntLeida = cntTaller(M, U, cedisId, asignada)]
       IN loteCede(
            Append(M, Mant(u, cedisId, "PREVENTIVO", "Plan preventivo sugerido",
                           asignada, SinFecha, 1)),
            U, Append(R, r), activas \ {u}, cedisId)

ProgramarCede(cedisId) ==
  LET fin == loteCede(mants, unidades, <<>>,
                      unidadesActivas(unidades, cedisId), cedisId)
  IN /\ variante = "p004"
     /\ pend = {}
     /\ Len(mants) <= MaxLote
     /\ mants' = fin.M
     /\ unidades' = fin.U
     /\ res' = fin.R
     /\ UNCHANGED <<variante, hoy, pend>>

\* the depot batches next to the single requests, on a small table
InitLotes ==
  /\ variante \in {"p005", "p004"}
  /\ hoy \in DiasIniciales
  /\ mants \in {<<>>, abiertoAtrasado(4, hoy), abiertoFuturo(4, hoy + 45)}
  /\ unidades = [u \in Pedibles |->
                   [cedis_id |-> cedisDeUnidad(u),
                    estado |-> estadoInicial(mants, u)]]
  /\ pend = {}
  /\ res = <<>>

NextLotes ==
  \/ \E u \in Pedibles, frac \in {0, 1} : Programar(u, frac)
  \/ \E m \in DOMAIN mants : Cerrar(m, {})
  \/ \E c \in Cedis, frac \in {0, 1} : ProgramarCedis(c, frac)
  \/ \E c \in Cedis : ProgramarCede(c)

SpecLotes == InitLotes /\ [][NextLotes]_vars

----------------------------------------------------------------------------
(* DELETE /mantenimientos/:id of part_004 *)

\* the place a deleted row leaves in the table: ids are never given again,
\* and no query of the scheduler finds the row (it has no unit and is not open)
Borrado == Mant(0, SinCedis, "BORRADO", "borrado", SinFecha, 1, 0)

\* SELECT id, fecha_fin FROM mantenimientos WHERE id=? finds a row
existeMant(M, mantId) == mantId \in DOMAIN M /\ M[mantId] # Borrado

\* estaCerrado that takes every record for closed
estaCerrado_Siempre(m) == TRUE

\* !m.fecha_fin is false
estaCerrado(m) == m.fecha_fin # SinFecha

Eliminar(mantId) ==
  /\ variante = "p004"
  /\ pend = {}
  /\ IF ~existeMant(mants, mantId)
     THEN /\ res' = <<Rechazo("eliminar", 404, mantId)>>
          /\ mants' = mants
     ELSE IF ~estaCerrado(mants[mantId])
     THEN /\ res' = <<Rechazo("eliminar", 400, mantId)>>
          /\ mants' = mants
     ELSE /\ mants' = [mants EXCEPT ![mantId] = Borrado]
          /\ res' = <<[op |-> "eliminado", ruta |-> "eliminar", status |-> 302,
                       pedido |-> mantId]>>
  /\ UNCHANGED <<variante, hoy, unidades, pend>>

\* part_004 started on a table with closed and open records
InitEliminar ==
  /\ variante = "p004"
  /\ hoy \in DiasIniciales
  /\ mants \in {abiertoAtrasado(4, hoy)}
               \cup {historialCerrado(3, n, "PREVENTIVO", hoy - 10) : n \in 1..2}
               \cup {abiertoConHistorial(3, hoy, t, hoy - 10) : t \in Tipos}
  /\ unidades = [u \in Pedibles |->
                   [cedis_id |-> cedisDeUnidad(u),
                    estado |-> estadoInicial(mants, u)]]
  /\ pend = {}
  /\ res = <<>>

NextEliminar ==
  \/ \E u \in Pedibles : Programar(u, 0)
  \/ \E m \in DOMAIN mants, t \in TrabajosPedidos :
       existeMant(mants, m) /\ Cerrar(m, t)
  \/ \E m \in 1..(Len(mants) + 1) : Eliminar(m)

SpecEliminar == InitEliminar /\ [][NextEliminar]_vars

----------------------------------------------------------------------------
(* aiPreventivePlan of src/src/services/ai.js *)

\* what JSON.parse found in the field dias_intervalo of the model's answer:
\* nothing, a text that is no number, or a number
Respuestas ==
  {[k |-> "ausente", n |-> 0], [k |-> "texto", n |-> 0]}
  \cup {[k |-> "numero", n |-> n] : n \in {0, 20, 45, 60}}

\* the field dias_intervalo that callJSON returns, [nan, n]: 45 without a
\* client; with one, Number(parsed.dias_intervalo || 45)
callJSON(cliente, parsed) ==
  IF ~cliente THEN [nan |-> FALSE, n |-> 45]
  ELSE IF parsed.k = "ausente" \/ (parsed.k = "numero" /\ parsed.n = 0)
       THEN [nan |-> FALSE, n |-> 45]
  ELSE IF parsed.k = "texto" THEN [nan |-> TRUE, n |-> 0]
  ELSE [nan |-> FALSE, n |-> parsed.n]

aiClassify(cliente, parsed) == callJSON(cliente, parsed)

\* [dias_intervalo, fecha_sugerida]; dias is cls.dias_intervalo || dias_base
aiPreventivePlan(M, U, unidadId, ahora, cliente, parsed) ==
  IF unidadId \notin DOMAIN U
  THEN [dias_intervalo |-> 45, fecha_sugerida |-> ahora + 45]
  ELSE LET veces == Cardinality(idsDeUnidad(M, unidadId))
           porVeces == IF veces >= 5 THEN 35 ELSE IF veces >= 3 THEN 40 ELSE 45
           ult == ultimoDe(M, unidadId)
           dias_base == IF ult # 0 /\ M[ult].tipo = "CORRECTIVO"
                        THEN (IF porVeces < 30 THEN porVeces ELSE 30)
                        ELSE porVeces
           cls == aiClassify(cliente, parsed)
           dias == IF cls.nan \/ cls.n = 0 THEN dias_base ELSE cls.n
           base == IF ult # 0 THEN fechaRef(M[ult]) ELSE ahora
       IN [dias_intervalo |-> dias, fecha_sugerida |-> base + dias]

\* one call of aiPreventivePlan for a unit, with or without an API client
AplicaPlan(unidadId, cliente, parsed) ==
  LET plan == aiPreventivePlan(mants, unidades, unidadId, hoy, cliente, parsed)
      existe == unidadId \in DOMAIN unidades
      ult == IF existe THEN ultimoDe(mants, unidadId) ELSE 0
  IN /\ pend = {}
     /\ (~cliente => parsed.k = "ausente")
     /\ res' = <<[op |-> "aiPreventivePlan", unidad |-> unidadId,
                  cliente |-> cliente,
                  veces |-> IF existe
                            THEN Cardinality(idsDeUnidad(mants, unidadId))
                            ELSE 0,
                  tipoUlt |-> IF ult = 0 THEN "NINGUNO" ELSE mants[ult].tipo,
                  ref |-> IF ult = 0 THEN hoy ELSE fechaRef(mants[ult]),
                  dias_intervalo |-> plan.dias_intervalo,
                  fecha_sugerida |-> plan.fecha_sugerida]>>
     /\ UNCHANGED <<variante, hoy, unidades, mants, pend>>

\* src/src/server.js started on a table with the history of unit 3
InitPlan ==
  /\ variante = "p002"
  /\ hoy \in DiasIniciales
  /\ mants \in {<<>>}
               \cup {historialCerrado(3, n, t, hoy - e) :
                       n \in 1..MaxHist, t \in Tipos, e \in Edades}
  /\ unidades = [u \in Pedibles |->
                   [cedis_id |-> cedisDeUnidad(u),
                    estado |-> estadoInicial(mants, u)]]
  /\ pend = {}
  /\ res = <<>>

NextPlan ==
  \/ \E u \in {0, 1, 3}, cliente \in BOOLEAN, p \in Respuestas :
       AplicaPlan(u, cliente, p)
  \/ \E u \in {1, 3} : Programar(u, 0)

SpecPlan == InitPlan /\ [][NextPlan]_vars

----------------------------------------------------------------------------
(* The clock *)

PasaTiempo(k) ==
  /\ pend = {}
  /\ hoy + k <= HoyMax
  /\ hoy' = hoy + k
  /\ UNCHANGED <<variante, unidades, mants, pend, res>>

Next ==
  \/ \E u \in Pedibles, frac \in {0, 1} : Programar(u, frac)
  \/ \E m \in DOMAIN mants, t \in TrabajosPedidos : Cerrar(m, t)
  \/ \E c \in Cedis, frac \in {0, 1} : ProgramarCedis(c, frac)
  \/ \E k \in Saltos : PasaTiempo(k)

Spec == Init /\ [][Next]_vars

----------------------------------------------------------------------------
(* The same handlers with requests that may name a unit or a record that *)
(* does not exist, from an empty table or one open record               *)

InitPedidos ==
  /\ variante \in Variantes
  /\ hoy \in DiasIniciales
  /\ mants \in {<<>>, abiertoAtrasado(4, hoy)}
  /\ unidades = [u \in Pedibles |->
                   [cedis_id |-> cedisDeUnidad(u),
                    estado |-> estadoInicial(mants, u)]]
  /\ pend = {}
  /\ res = <<>>

NextPedidos ==
  \/ \E u \in UnidadesPedidas, frac \in {0, 1} : Programar(u, frac)
  \/ \E m \in 1..(Len(mants) + 1), t \in TrabajosPedidos : Cerrar(m, t)

SpecPedidos == InitPedidos /\ [][NextPedidos]_vars

----------------------------------------------------------------------------
(* Concurrent requests: every await of a handler is a point where another
   request may run.  The reads of a handler up to its INSERT are taken as
   one step and the INSERT (with the UPDATE of the unit after it) as a second
   step; requests in between are kept in pend. *)

InitConc ==
  /\ variante \in {"p005", "p004"}
  /\ hoy \in DiasIniciales
  /\ mants \in {<<>>, abiertoAtrasado(4, hoy)}
  /\ unidades = [u \in Pedibles |->
                   [cedis_id |-> cedisDeUnidad(u), estado |-> estadoInicial(mants, u)]]
  /\ pend = {}
  /\ res = <<>>

\* the exploration bound on requests in flight plus records inserted
cabeOtro == Cardinality(pend) + nuevos(mants) < MaxNuevos

\* POST /unidades/:id/programar: in part_005 up to the snapshot that
\* asignarFechaConCapacidad reads first, in part_004 up to the INSERT
LeeProgramar(unidadId, frac) ==
  LET cedisId == unidades[unidadId].cedis_id
      c5 == calcularProximaFecha005(mants, unidadId, hoy, frac)
      c4 == calcularProximaFecha004(mants, unidades, unidadId, {}, cedisId, hoy)
      f4 == primerDiaDisponible(mants, unidades, c4.fecha, hoy, cedisId)
  IN /\ cabeOtro
     /\ variante = "p004" => frac = 0
     /\ pend' = pend \cup
          {IF variante = "p005"
           THEN [Resultado("programar", unidadId, cedisId, c5.dias, c5.base,
                           c5.fecha, c5.fecha, obtenerFechasProgramadas(mants),
                           cntGrupo(mants, unidades, cedisId, c5.fecha),
                           capacidadPorCedis(cedisId), FALSE, 0, mants)
                 EXCEPT !.fase = IF cedisId # SinCedis THEN "leido"
                                 ELSE "asignado"]
           ELSE [Resultado("programar", unidadId, cedisId, c4.dias, c4.base,
                           c4.fecha, f4,
                           setFechasProgramadas(mants, unidades, cedisId),
                           cntGrupo(mants, unidades, cedisId, f4),
                           workshopInfo(cedisId).maxPorDia,
                           ~busqueda(mants, unidades, c4.base, hoy, cedisId).ok,
                           0, mants)
                 EXCEPT !.cntLeida = cntTaller(mants, unidades, cedisId, f4)]}
     /\ UNCHANGED <<variante, hoy, unidades, mants, res>>

\* POST /mantenimientos/:id/realizado up to the INSERT: the record is closed,
\* the unit released and the next date computed
CierraYLee(mantId) ==
  LET M1 == cerrado(mants, mantId, hoy)
      unidadId == mants[mantId].unidad_id
      U1 == liberada(M1, unidades, unidadId)
      cedis5 == IF U1[unidadId].cedis_id # SinCedis
                THEN U1[unidadId].cedis_id ELSE mants[mantId].cedis_id
      c5 == calcularProximaFecha005(M1, unidadId, hoy, 1)
      f5 == IF cedis5 # SinCedis
            THEN asignarFechaConCapacidad(M1, cedis5, c5.fecha)
            ELSE c5.fecha
      cedis4 == mants[mantId].cedis_id
      c4 == calcularProximaFecha004(M1, U1, unidadId, {}, cedis4, hoy)
      f4 == primerDiaDisponible(M1, U1, c4.fecha, hoy, cedis4)
  IN /\ cabeOtro
     /\ mants' = M1
     /\ unidades' = U1
     /\ pend' = pend \cup
          {IF variante = "p005"
           THEN [Resultado("cerrar", unidadId, cedis5, c5.dias, c5.base,
                           c5.fecha, f5, obtenerFechasProgramadas(M1),
                           cntGrupo(M1, U1, cedis5, f5),
                           capacidadPorCedis(cedis5), FALSE, mantId, M1)
                 EXCEPT !.cntLeida = cntCedisFecha(M1, cedis5, f5)]
           ELSE [Resultado("cerrar", unidadId, cedis4, c4.dias, c4.base,
                           c4.fecha, f4, setFechasProgramadas(M1, U1, cedis4),
                           cntGrupo(M1, U1, cedis4, f4),
                           workshopInfo(cedis4).maxPorDia,
                           ~busqueda(M1, U1, c4.base, hoy, cedis4).ok,
                           mantId, M1)
                 EXCEPT !.cntLeida = cntTaller(M1, U1, cedis4, f4)]}
     /\ UNCHANGED <<variante, hoy, res>>

\* the while loop of asignarFechaConCapacidad of a request of part_005: the
\* snapshot is the one read before, each COUNT(*) is a query on the table as
\* it is now; cntLeida is the count the loop read on the date it accepted
Asigna(p) ==
  LET f5 == asignarDesde(p.previa, p.set, capacidadPorCedis(p.cedis),
                         mants, p.cedis)
  IN /\ p.fase = "leido"
     /\ pend' = (pend \ {p}) \cup
          {[p EXCEPT !.fase = "asignado", !.fecha = f5,
                     !.cnt = cntGrupo(mants, unidades, p.cedis, f5),
                     !.cntLeida = cntCedisFecha(mants, p.cedis, f5)]}
     /\ UNCHANGED <<variante, hoy, unidades, mants, res>>

\* the INSERT of a request in flight, with the date computed when it read;
\* res keeps the open dates and the count of the day as they are at the write
Inserta(p) ==
  LET manual == variante = "p005" /\ p.op = "programar"
  IN /\ p.fase = "asignado"
     /\ mants' = Append(mants, Mant(p.unidad, p.cedis, "PREVENTIVO",
                                    IF manual THEN "Programado manualmente"
                                    ELSE "Plan preventivo sugerido",
                                    p.fecha, SinFecha, 1))
     /\ unidades' = IF manual
                    THEN [unidades EXCEPT ![p.unidad].estado = "EN_TALLER"]
                    ELSE unidades
     /\ pend' = pend \ {p}
     /\ res' = <<[p EXCEPT !.op = "insertar",
                           !.set = IF variante = "p005"
                                   THEN obtenerFechasProgramadas(mants)
                                   ELSE setFechasProgramadas(mants, unidades, p.cedis),
                           !.cnt = cntGrupo(mants, unidades, p.cedis, p.fecha),
                           !.id = Len(mants) + 1]>>
     /\ UNCHANGED <<variante, hoy>>

NextConc ==
  \/ \E u \in Pedibles, frac \in {0, 1} : LeeProgramar(u, frac)
  \/ \E m \in DOMAIN mants : CierraYLee(m)
  \/ \E p \in pend : Asigna(p)
  \/ \E p \in pend : Inserta(p)

SpecConc == InitConc /\ [][NextConc]_vars

----------------------------------------------------------------------------
(* The endpoints of src/src/server.js that call the scheduler for every *)
(* unit and only show the dates                                          *)

\* ORDER BY COALESCE(fecha_fin, fecha_inicio) DESC, id DESC LIMIT 1
ultimoPorFecha(M, unidadId) ==
  LET ids == idsDeUnidad(M, unidadId)
  IN IF ids = {} THEN 0
     ELSE CHOOSE i \in ids :
            \A j \in ids : \/ fechaRef(M[j]) < fechaRef(M[i])
                            \/ (fechaRef(M[j]) = fechaRef(M[i]) /\ j <= i)

\* while (fechasAsignadas.has(d) || d.day() === 0) d = d.add(1, 'day')
RECURSIVE fueraDeAsignadas(_, _)
fueraDeAsignadas(d, asignadas) ==
  IF d \in asignadas \/ esDomingo(d) THEN fueraDeAsignadas(d + 1, asignadas)
  ELSE d

\* the simulated date of one unit of GET /debug/ai-preview
fechaSimulada(M, u, asignadas, ahora) ==
  LET ult == ultimoPorFecha(M, u)
      candidata == (IF ult # 0 THEN fechaRef(M[ult]) ELSE ahora) + 45
      finalDate == fechaSinChoque(M, IF esDomingo(candidata)
                                     THEN candidata + 1 ELSE candidata)
  IN fueraDeAsignadas(finalDate, asignadas)

\* the loop of POST /ai/programar, which inserts each date it computed
RECURSIVE aiPreview_Inserta(_, _, _, _, _)
aiPreview_Inserta(M, activas, asignadas, R, ahora) ==
  IF activas = {} THEN [M |-> M, R |-> R]
  ELSE LET u == CHOOSE x \in activas : \A y \in activas : x <= y
           f == fechaSimulada(M, u, asignadas, ahora)
       IN aiPreview_Inserta(
            Append(M, Mant(u, cedisDeUnidad(u), "PREVENTIVO",
                           "Plan preventivo sugerido", f, SinFecha, 1)),
            activas \ {u}, asignadas \cup {f},
            Append(R, [unidad_id |-> u, fecha |-> f]), ahora)

\* the for loop of GET /debug/ai-preview over the ACTIVA units (the plates
\* are taken to sort like the ids): M is the table when the loop ends
RECURSIVE aiPreview(_, _, _, _, _)
aiPreview(M, activas, asignadas, R, ahora) ==
  IF activas = {} THEN [M |-> M, R |-> R]
  ELSE LET u == CHOOSE x \in activas : \A y \in activas : x <= y
           f == fechaSimulada(M, u, asignadas, ahora)
       IN aiPreview(M, activas \ {u}, asignadas \cup {f},
                    Append(R, [unidad_id |-> u, fecha |-> f]), ahora)

AiPreview ==
  LET activas == {u \in DOMAIN unidades : unidades[u].estado = "ACTIVA"}
      fin == aiPreview(mants, activas, {}, <<>>, hoy)
  IN /\ variante = "p002"
     /\ pend = {}
     /\ mants' = fin.M
     /\ res' = <<[op |-> "consulta", ruta |-> "ai-preview",
                  simulacion |-> fin.R]>>
     /\ UNCHANGED <<variante, hoy, unidades, pend>>

\* aiProgramar that computes every date on the table as it was before the
\* loop and inserts the records at the end
aiProgramar_SinReleer(M, U, activas, asignadas, R, ahora) ==
  LET p == aiPreview(M, activas, asignadas, R, ahora)
  IN [M |-> M \o [i \in DOMAIN p.R |->
                    Mant(p.R[i].unidad_id, U[p.R[i].unidad_id].cedis_id,
                         "PREVENTIVO", "Plan preventivo sugerido",
                         p.R[i].fecha, SinFecha, 0)],
      R |-> p.R]

\* the for loop of POST /ai/programar over the ACTIVA units: each date is
\* computed on the table with the records the loop has inserted so far
RECURSIVE aiProgramar(_, _, _, _, _, _)
aiProgramar(M, U, activas, asignadas, R, ahora) ==
  IF activas = {} THEN [M |-> M, R |-> R]
  ELSE LET u == CHOOSE x \in activas : \A y \in activas : x <= y
           f == fechaSimulada(M, u, asignadas, ahora)
       IN aiProgramar(
            Append(M, Mant(u, U[u].cedis_id, "PREVENTIVO",
                           "Plan preventivo sugerido", f, SinFecha, 0)),
            U, activas \ {u}, asignadas \cup {f},
            Append(R, [unidad_id |-> u, fecha |-> f]), ahora)

\* units that POST /ai/programar may name in body.unidad_id (0: none named)
UnidadesAi == {0, 1, 5, NFlota + 10}

\* POST /ai/programar. faltaCorreo: the depot of the unit named (or of some
\* ACTIVA unit, when none is named) has no e-mail address in table cedis
AiProgramar(unidadId, faltaCorreo) ==
  LET activas == {u \in DOMAIN unidades : unidades[u].estado = "ACTIVA"}
      fin == aiProgramar(mants, unidades, activas, {}, <<>>, hoy)
  IN /\ variante = "p002"
     /\ pend = {}
     /\ IF unidadId # 0
        THEN IF unidadId \notin DOMAIN unidades
             THEN /\ ~faltaCorreo
                  /\ res' = <<Rechazo("ai-programar", 404, unidadId)>>
                  /\ UNCHANGED <<mants, unidades>>
             ELSE IF unidades[unidadId].cedis_id = SinCedis \/ faltaCorreo
             THEN /\ (unidades[unidadId].cedis_id = SinCedis => faltaCorreo)
                  /\ res' = <<Rechazo("ai-programar", 400, unidadId)>>
                  /\ UNCHANGED <<mants, unidades>>
             ELSE /\ hayPresupuesto(mants)
                  /\ Programar002(unidadId)
        ELSE IF faltaCorreo
             THEN /\ \E u \in activas : unidades[u].cedis_id # SinCedis
                  /\ res' = <<Rechazo("ai-programar", 400, 0)>>
                  /\ UNCHANGED <<mants, unidades>>
             ELSE IF activas = {}
             THEN /\ res' = <<Rechazo("ai-programar", 400, 0)>>
                  /\ UNCHANGED <<mants, unidades>>
             ELSE /\ nuevos(mants) <= MaxNuevos
                  /\ mants' = fin.M
                  /\ unidades' = unidades
                  /\ res' = <<[op |-> "ai-programar", previos |-> mants,
                               asignadas |-> fin.R]>>
     /\ UNCHANGED <<variante, hoy, pend>>

\* GET /unidades: proximos[u.id] = calcularProximoParaUnidad(u.id) for the
\* units of the filter (cedisId = SinCedis: no filter)
VerUnidades(cedisId) ==
  LET lista == {u \in DOMAIN unidades :
                  cedisId = SinCedis \/ unidades[u].cedis_id = cedisId}
  IN /\ variante = "p002"
     /\ pend = {}
     /\ res' = <<[op |-> "consulta", ruta |-> "unidades",
                  simulacion |->
                    [u \in lista |->
                       calcularProximoParaUnidad(mants, u, hoy).fecha]]>>
     /\ UNCHANGED <<variante, hoy, unidades, mants, pend>>

InitConsultas ==
  /\ variante \in {"p005", "p004", "p002"}
  /\ hoy \in DiasIniciales
  /\ mants \in {<<>>, abiertoAtrasado(4, hoy), abiertoFuturo(4, hoy + 45),
                abiertoFuturo(4, hoy + 46), abiertoFuturo(4, hoy + 47)}
  /\ unidades = [u \in Pedibles |->
                   [cedis_id |-> cedisDeUnidad(u),
                    estado |-> estadoInicial(mants, u)]]
  /\ pend = {}
  /\ res = <<>>

\* the calculations alone (LeeProgramar, Asigna, AiPreview, VerUnidades) and
\* the writes that follow them
NextConsultas ==
  \/ \E u \in Pedibles, frac \in {0, 1} :
       variante \in {"p005", "p004"} /\ LeeProgramar(u, frac)
  \/ \E p \in pend : Asigna(p)
  \/ \E p \in pend : Inserta(p)
  \/ \E u \in Pedibles : variante = "p002" /\ Programar(u, 0)
  \/ AiPreview
  \/ \E c \in Cedis \cup {SinCedis} : VerUnidades(c)
  \/ \E u \in UnidadesAi, falta \in BOOLEAN : AiProgramar(u, falta)

SpecConsultas == InitConsultas /\ [][NextConsultas]_vars

----------------------------------------------------------------------------
(* The calendar functions applied on their own to the stored calendar, *)
(* one application in each behaviour                                  *)

\* start dates of the open records of the calendars below, as days after
\* today + 45, and the dates the functions are applied to
Desfases == {0, 6, 7, 8, 14}
Candidatos(ahora) == (ahora + 44)..(ahora + 54)

\* a visit of unit u that was planned for the day `dia` and closed today,
\* followed by the open visit booked for the unit after it
cerradoAntes(u, dia, ahora) ==
  <<Mant(u, cedisDeUnidad(u), "PREVENTIVO", "inicial", dia, ahora, 0)>>
  \o abiertoFuturo(u, ahora + 45 + 21)

\* the calendars: nothing booked, one visit of unit 4, a visit of unit 4 and
\* one of unit 3, a visit of unit 4 and a closed one of unit 3 a week or more
\* later, a visit of unit 1 (Cartago) and one of unit 4 (Norte), or (on
\* DiaHistorial) the booked calendar of the fleet
Calendarios(ahora) ==
  {<<>>}
  \cup {abiertoFuturo(4, ahora + 45) \o cerradoAntes(3, ahora + 45 + b, ahora) :
          b \in {7, 8, 9}}
  \cup {abiertoFuturo(1, ahora + 45 + a) \o abiertoFuturo(4, ahora + 45 + b) :
          a \in {0, 3}, b \in {0, 3}}
  \cup {abiertoFuturo(4, ahora + 45 + a) : a \in Desfases}
  \cup UNION {{abiertoFuturo(4, ahora + 45 + a)
                \o abiertoFuturo(3, ahora + 45 + b) :
                  b \in {x \in Desfases : x >= a}} : a \in Desfases}
  \cup (IF ahora = DiaHistorial THEN {calendarioFlota(ahora)} ELSE {})

InitCalendario ==
  /\ variante \in {"p005", "p004", "p002"}
  /\ hoy \in DiasIniciales
  /\ mants \in Calendarios(hoy)
  /\ unidades = [u \in Pedibles \cup {mants[i].unidad_id : i \in DOMAIN mants} |->
                   [cedis_id |-> cedisDeUnidad(u),
                    estado |-> estadoInicial(mants, u)]]
  /\ pend = {}
  /\ res = <<>>

\* colisiona of espaciar7dias (part_005) or colisiona7Dias (part_004) on a
\* candidate and the dates of the open records
AplicaColisiona(cand, frac) ==
  LET set == obtenerFechasProgramadas(mants)
  IN /\ res = <<>>
     /\ variante \in {"p005", "p004"}
     /\ variante = "p004" => frac = 0
     /\ res' = <<[op |-> "colisiona", cand |-> cand, frac |-> frac,
                  set |-> set,
                  valor |-> IF variante = "p005"
                            THEN colisiona(cand, frac, set)
                            ELSE colisiona7Dias(cand, set)]>>
     /\ UNCHANGED <<variante, hoy, unidades, mants, pend>>

\* siguienteHabil (part_005) or siguienteNoDomingo (part_002, server.js)
AplicaSiguienteHabil(d) ==
  /\ res = <<>>
  /\ variante \in {"p005", "p002"}
  /\ res' = <<[op |-> "siguienteHabil", d |-> d,
               valor |-> IF variante = "p005" THEN siguienteHabil(d)
                         ELSE siguienteNoDomingo(d),
               pasos |-> pasosSiguienteHabil(d)]>>
  /\ UNCHANGED <<variante, hoy, unidades, mants, pend>>

\* espaciar7dias (part_005) on a candidate and the dates of the open records
AplicaEspaciar(f, frac) ==
  LET set == obtenerFechasProgramadas(mants)
  IN /\ res = <<>>
     /\ variante = "p005"
     /\ res' = <<[op |-> "espaciar7dias", f |-> f, frac |-> frac, set |-> set,
                  valor |-> espaciar7dias(f, frac, set)]>>
     /\ UNCHANGED <<variante, hoy, unidades, mants, pend>>

\* asignarFechaConCapacidad (part_005) for a depot and a base date
AplicaAsignar(cedisId, baseISO) ==
  /\ res = <<>>
  /\ variante = "p005"
  /\ res' = <<[op |-> "asignarFechaConCapacidad", cedis |-> cedisId,
               base |-> baseISO, set |-> obtenerFechasProgramadas(mants),
               valor |-> asignarFechaConCapacidad(mants, cedisId, baseISO)]>>
  /\ UNCHANGED <<variante, hoy, unidades, mants, pend>>

\* fechaSinChoque (part_002, src/src/server.js) on a base date, with no
\* excluded plate or the plate of a unit
AplicaFechaSinChoque(d, excluirPlaca) ==
  /\ res = <<>>
  /\ variante = "p002"
  /\ res' = <<[op |-> "fechaSinChoque", d |-> d, excl |-> excluirPlaca,
               valor |-> IF excluirPlaca = SinPlaca
                         THEN fechaSinChoque(mants, d)
                         ELSE fechaSinChoqueExcl(mants, d, excluirPlaca)]>>
  /\ UNCHANGED <<variante, hoy, unidades, mants, pend>>

\* primerDiaDisponible (part_004) for a depot's pool and a base date
AplicaPrimerDia(cedisId, base) ==
  /\ res = <<>>
  /\ variante = "p004"
  /\ res' = <<[op |-> "primerDiaDisponible", cedis |-> cedisId, base |-> base,
               normal |-> normalizaFuturo(base, hoy),
               set |-> setFechasProgramadas(mants, unidades, cedisId),
               ok |-> busqueda(mants, unidades, base, hoy, cedisId).ok,
               valor |-> primerDiaDisponible(mants, unidades, base, hoy,
                                             cedisId)]>>
  /\ UNCHANGED <<variante, hoy, unidades, mants, pend>>

NextCalendario ==
  \/ \E c \in Candidatos(hoy), frac \in {0, 1} : AplicaColisiona(c, frac)
  \/ \E d \in Candidatos(hoy) : AplicaSiguienteHabil(d)
  \/ \E f \in Candidatos(hoy), frac \in {0, 1} : AplicaEspaciar(f, frac)
  \/ \E c \in Cedis, b \in Candidatos(hoy) : AplicaAsignar(c, b)
  \/ \E d \in Candidatos(hoy), p \in {SinPlaca, 3, 4} : AplicaFechaSinChoque(d, p)
  \/ \E c \in Cedis \cup {SinCedis}, b \in Candidatos(hoy) \cup {hoy - 1} :
       AplicaPrimerDia(c, b)

SpecCalendario == InitCalendario /\ [][NextCalendario]_vars

----------------------------------------------------------------------------
(* Properties *)

\* calendar distance in days between two dates
distancia(a, b) == IF a >= b THEN a - b ELSE b - a

\* the scheduler calls of the last handler
Llamadas ==
  {res[i] : i \in {j \in DOMAIN res : res[j].op \in {"programar", "cerrar", "lote",
                                                "insertar"}}}

\* C1: every date the scheduler returned (the date of calcularProximaFecha and
\* the date assigned for the insert) is at least 7 days away from every start
\* date of the snapshot of open records it consulted
C1_Espaciado ==
  \A r \in Llamadas :
    variante \in {"p005", "p004"} =>
      \A s \in r.set : distancia(r.previa, s) >= 7 /\ distancia(r.fecha, s) >= 7

\* C2: for a vehicle with a depot, the open records of the depot's capacity
\* group that start on the returned date, counted before the insert, are
\* fewer than the group's capacity (5 for Cartago/Transportadora, else 1)
C2_Capacidad ==
  \A r \in Llamadas :
    (variante \in {"p005", "p004"} /\ r.cedis # SinCedis) =>
      /\ r.cnt < (IF r.cedis \in {1, 2} THEN 5 ELSE 1)
      /\ r.cntPrevia < (IF r.cedis \in {1, 2} THEN 5 ELSE 1)

\* C3: the date returned by the scheduling path is never a Sunday
C3_NuncaDomingo ==
  \A r \in Llamadas :
    variante \in {"p005", "p004"} => r.previa % 7 # 0 /\ r.fecha % 7 # 0

\* C3 witness: the base candidate fell on a Sunday and a date was assigned
C3_Testigo ==
  \E r \in Llamadas :
    variante \in {"p005", "p004"} /\ (IF r.base < r.hoy /\ variante = "p004"
                                      THEN r.hoy + 1 ELSE r.base) % 7 = 0
    /\ r.id \in DOMAIN mants /\ mants[r.id].fecha_inicio = r.fecha

\* C4: the date returned by the scheduler is strictly later than today
C4_SoloFuturo ==
  \A r \in Llamadas :
    variante \in {"p005", "p004"} => r.previa > r.hoy /\ r.fecha > r.hoy

\* open records i < j of one capacity group
mismoGrupo(i, j) ==
  /\ i < j
  /\ mants[i].fecha_fin = SinFecha /\ mants[j].fecha_fin = SinFecha
  /\ mants[i].cedis_id # SinCedis /\ mants[j].cedis_id # SinCedis
  /\ capacidadPorCedis(mants[i].cedis_id) = capacidadPorCedis(mants[j].cedis_id)
  /\ (capacidadPorCedis(mants[i].cedis_id) = 1
        => mants[i].cedis_id = mants[j].cedis_id)

\* C5: whatever the interleaving of the requests, the open records of one
\* depot group are at least 7 days apart from each other and no day holds
\* more of them than the group's capacity
C5_AtomicoPorGrupo ==
  /\ \A i, j \in DOMAIN mants :
       mismoGrupo(i, j) =>
         distancia(mants[i].fecha_inicio, mants[j].fecha_inicio) >= 7
  /\ \A i \in DOMAIN mants :
       (mants[i].fecha_fin = SinFecha /\ mants[i].cedis_id # SinCedis) =>
         cntGrupo(mants, unidades, mants[i].cedis_id, mants[i].fecha_inicio)
           <= capacidadPorCedis(mants[i].cedis_id)

\* C6: an INSERT never writes a date that, against the records open at the
\* time of the write, is less than 7 days from one of them or falls on a day
\* already at capacity (the handler would recompute and retry instead)
C6_ReintentoAlEscribir ==
  \A r \in Llamadas :
    r.op = "insertar" =>
      /\ \A s \in r.set : distancia(r.fecha, s) >= 7
      /\ r.cedis # SinCedis => r.cnt < r.cupo

\* C7: when the 180 candidates of the search have all been rejected the
\* request fails: no record is inserted with the date of the fallback
C7_AgotadoFalla ==
  \A r \in Llamadas :
    r.agotado => ~(r.id \in DOMAIN mants /\ mants[r.id].unidad_id = r.unidad
                   /\ mants[r.id].fecha_fin = SinFecha)

\* C8: a close sets the record's end date and inserts exactly one record for
\* the same vehicle, PREVENTIVO, open, starting after the closing day
C8_CierreReprograma ==
  \A r \in Llamadas :
    (r.op = "cerrar" /\ variante \in {"p005", "p004"}) =>
      /\ mants[r.cerrado].fecha_fin = r.hoy
      /\ Len(mants) = r.id
      /\ mants[r.id].unidad_id = mants[r.cerrado].unidad_id
      /\ mants[r.id].tipo = "PREVENTIVO"
      /\ mants[r.id].fecha_fin = SinFecha
      /\ mants[r.id].fecha_inicio > r.hoy

\* C9: when the vehicle's most recent record is CORRECTIVO the interval used
\* is at most 30 days, whatever the visit count and the tasks performed
C9_TopeCorrectivo ==
  \A r \in Llamadas :
    (variante \in {"p005", "p004", "p009"} /\ r.tipoUlt = "CORRECTIVO") =>
      r.dias <= 30

\* C9 witness: a corrective last visit of a vehicle whose visit count alone
\* gives a longer interval
C9_Testigo ==
  \E r \in Llamadas :
    r.tipoUlt = "CORRECTIVO" /\ r.veces >= 5 /\ r.dias = 30 /\ variante = "p005"

\* C10: without a corrective last visit (and without tasks) the interval is
\* 45 days below 3 records, 40 for 3 or 4, 35 from 5 on, so it never grows
\* with the visit count
C10_DiasPorVeces ==
  \A r \in Llamadas :
    (r.tipoUlt # "CORRECTIVO"
     /\ (variante = "p005" \/ (variante = "p004" /\ r.op = "programar"))) =>
      /\ r.veces < 3 => r.dias = 45
      /\ r.veces \in {3, 4} => r.dias = 40
      /\ r.veces >= 5 => r.dias = 35
      /\ r.dias <= 45

\* C10 witness: a vehicle with 5 or more records got the 35-day interval
C10_Testigo ==
  \E r \in Llamadas :
    r.veces >= 5 /\ r.tipoUlt = "PREVENTIVO" /\ r.dias = 35


\* the table the scheduler call r computed on: the records before the one the
\* handler inserted
previos(r) == SubSeq(mants, 1, r.id - 1)

\* the reference date of call r read off the table: end date of the unit's
\* record with the highest id when it has one, else its start date, else today
refDe(r) ==
  LET M == previos(r)
      ids == {i \in DOMAIN M : M[i].unidad_id = r.unidad}
      u == CHOOSE i \in ids : \A j \in ids : j <= i
  IN IF ids = {} THEN r.hoy
     ELSE IF M[u].fecha_fin # SinFecha THEN M[u].fecha_fin
     ELSE M[u].fecha_inicio

\* C11: the base candidate is the reference date plus the interval (end date
\* of the most recent record if closed, else its start date, else today), and
\* a vehicle without history is scheduled with the 45-day interval
C11_FechaReferencia ==
  \A r \in Llamadas :
    (variante # "p002" \/ r.op = "programar") =>
      /\ r.base = refDe(r) + r.dias
      /\ r.veces = 0 =>
           /\ r.dias = 45
           /\ r.base = r.hoy + 45
           /\ r.id \in DOMAIN mants
           /\ mants[r.id].unidad_id = r.unidad
           /\ mants[r.id].fecha_inicio = r.fecha

\* C11 witness: one call took the start date of an open last record as the
\* reference, in the two generations the rule is read from
C11_Testigo ==
  \E r \in Llamadas :
    /\ variante \in {"p005", "p002"}
    /\ r.op = "programar" /\ r.veces = 1
    /\ previos(r)[1].fecha_fin = SinFecha
    /\ r.base = previos(r)[1].fecha_inicio + 45


\* the tasks of call r that have a nominal interval
reconocidos(r) == {x \in r.trabajos : WORK_RULES(x) # 0}

\* C12: with task labels at the closing visit the interval is the smallest
\* nominal interval of the recognised tasks; with no task or none recognised
\* it is 45 days (the last record not being corrective)
C12_MinimoPorTrabajos ==
  \A r \in Llamadas :
    (variante = "p009" /\ r.tipoUlt # "CORRECTIVO") =>
      IF reconocidos(r) = {} THEN r.dias = 45
      ELSE /\ \E x \in reconocidos(r) : r.dias = WORK_RULES(x)
           /\ \A x \in reconocidos(r) : r.dias <= WORK_RULES(x)

\* C12 witness: a close with a 30-day and a 60-day task took 30 days
C12_Testigo ==
  \E r \in Llamadas :
    /\ variante = "p009" /\ r.op = "cerrar" /\ r.tipoUlt = "PREVENTIVO"
    /\ r.trabajos = {"Pastillas/frenos", "Filtro de aire"}
    /\ r.dias = 30


\* C13: for a depot of the Cartago/Transportadora group the count that is
\* compared with the capacity 5 on the accepted day is the number of open
\* records of all the depots of the group on that day
C13_CupoCombinado ==
  \A p \in pend :
    (p.fase = "asignado" /\ p.cedis # SinCedis
     /\ capacidadPorCedis(p.cedis) = 5) =>
      p.cntLeida = p.cnt


\* the first day from `desde` on that is not a Sunday and is 7 calendar days
\* or more away from every date of setF
primerLibre(desde, setF) ==
  LET tope == CHOOSE m \in setF \cup {desde} : \A x \in setF \cup {desde} : x <= m
      libres == {d \in desde..(tope + 8) :
                   d % 7 # 0 /\ \A x \in setF : distancia(d, x) >= 7}
  IN CHOOSE d \in libres : \A e \in libres : d <= e

\* C14: for a vehicle without depot the date returned is the first day, from
\* the base candidate on (in part_004 from tomorrow on when the base is past),
\* that is not a Sunday and not within 7 days of a date of the snapshot
C14_SinCedis ==
  \A r \in Llamadas :
    (variante \in {"p005", "p004"} /\ r.cedis = SinCedis) =>
      r.fecha = primerLibre(IF variante = "p004" /\ r.base < r.hoy
                            THEN r.hoy + 1 ELSE r.base, r.set)


\* C15: in part_005, when a vehicle of a depot of capacity 1 is scheduled
\* after the record of another vehicle of the same depot was inserted, the
\* date it gets differs from the start date of that open record (so two
\* vehicles with the same base candidate end up at least one day apart)
C15_CupoUnoSepara ==
  \A r \in Llamadas :
    (variante = "p005" /\ r.cedis # SinCedis /\ r.cupo = 1
       /\ r.id \in DOMAIN mants) =>
      \A i \in DOMAIN previos(r) :
        (/\ previos(r)[i].fecha_fin = SinFecha
         /\ previos(r)[i].cedis_id = r.cedis
         /\ previos(r)[i].unidad_id # r.unidad) =>
          distancia(mants[r.id].fecha_inicio, previos(r)[i].fecha_inicio) >= 1

\* the depot batch scheduled two vehicles of CEDIS Norte with the same base
\* candidate: the first got that date, the second a later one
C15_Testigo ==
  \E r \in Llamadas :
    /\ variante = "p005" /\ r.op = "lote" /\ r.cupo = 1 /\ r.id = 2
    /\ mants[1].motivo = "Programado por CEDIS"
    /\ mants[1].cedis_id = r.cedis /\ mants[1].unidad_id # r.unidad
    /\ mants[1].fecha_inicio = r.base
    /\ mants[2].fecha_inicio > mants[1].fecha_inicio


\* the records of the vehicle, other than the closed one, that were open
\* when the close of call r ran
otrosAbiertos(r) ==
  {i \in DOMAIN previos(r) \ {r.cerrado} :
     previos(r)[i].unidad_id = r.unidad /\ previos(r)[i].fecha_fin = SinFecha}

\* C16: after a close (part_005, part_002) the vehicle is ACTIVA when no
\* other record of it was open at the close, and keeps the status it had
\* when another record of it was still open
C16_EstadoAlCerrar ==
  \A r \in Llamadas :
    (variante \in {"p005", "p002"} /\ r.op = "cerrar") =>
      IF otrosAbiertos(r) = {}
      THEN unidades[r.unidad].estado = "ACTIVA"
      ELSE unidades[r.unidad].estado = r.estadoAntes


\* C17: in part_005 every unit that has at least one open maintenance record
\* has estado EN_TALLER (each handler that creates an open record marks it)
C17_AbiertoEnTaller ==
  variante = "p005" =>
    \A u \in DOMAIN unidades :
      abiertosDe(mants, u) # {} => unidades[u].estado = "EN_TALLER"


\* C18: a close (part_005, part_003) leaves the closed record with fecha_fin
\* equal to the closing day and reservado_inventario equal to 0, and changes
\* no field of any other record that existed before it
C18_CierreLiberaReserva ==
  [][(mants' # mants /\ res' # <<>> /\ res'[1].op = "cerrar"
        /\ variante \in {"p005", "p003"}) =>
       LET m == res'[1].cerrado
       IN /\ mants'[m].fecha_fin = hoy
          /\ mants'[m].reservado_inventario = 0
          /\ \A i \in DOMAIN mants \ {m} : mants'[i] = mants[i]]_vars


\* C19: (part_005, part_004) when the history of the vehicle holds a record
\* whose end date is earlier than its start date, the call schedules no new
\* record for the vehicle
C19_HistorialMalFormado ==
  \A r \in Llamadas :
    (/\ variante \in {"p005", "p004"}
     /\ \E i \in DOMAIN previos(r) :
          /\ previos(r)[i].unidad_id = r.unidad
          /\ previos(r)[i].fecha_fin # SinFecha
          /\ previos(r)[i].fecha_fin < previos(r)[i].fecha_inicio) =>
      ~(r.id \in DOMAIN mants /\ mants[r.id].unidad_id = r.unidad)


\* the request answered by r named a unit or a record that does not exist
pedidoAusente(r) ==
  CASE r.op = "rechazo" ->
         \/ r.ruta = "programar" /\ r.pedido \notin DOMAIN unidades
         \/ r.ruta = "cerrar" /\ r.pedido \notin DOMAIN mants
    [] r.op = "programar" -> r.unidad \notin DOMAIN unidades
    [] r.op = "cerrar" -> r.cerrado \notin DOMAIN mants
    [] OTHER -> FALSE

C21_Determinista ==
  \A r \in Llamadas :
    (r.op \in {"programar", "lote"} /\ variante \in {"p005", "p004"}) =>
      \A fr \in {0, 1} :
        r.previa =
          IF variante = "p005"
          THEN calcularProximaFecha005(previos(r), r.unidad, r.hoy, fr).fecha
          ELSE calcularProximaFecha004(previos(r), unidades, r.unidad, {},
                                       r.cedis, r.hoy).fecha


\* C22: a step that only computes a next date (calcularProximaFecha or
\* primerDiaDisponible up to the value they return, asignarFechaConCapacidad,
\* GET /unidades, GET /debug/ai-preview) leaves every unit and every
\* maintenance record unchanged
C22_CalculoSinEscritura ==
  [][((pend' \ pend # {})
        \/ (res' # res /\ res' # <<>> /\ res'[1].op = "consulta")) =>
       mants' = mants /\ unidades' = unidades]_vars

\* GET /debug/ai-preview answered with the dates of two or more units while
\* a record was open
C22_Testigo ==
  /\ res # <<>> /\ res[1].op = "consulta" /\ res[1].ruta = "ai-preview"
  /\ Len(res[1].simulacion) >= 2
  /\ \E i \in DOMAIN mants : mants[i].fecha_fin = SinFecha


\* the applications of the calendar function `nombre` in the last step
Aplicaciones(nombre) ==
  {res[i] : i \in {j \in DOMAIN res : res[j].op = nombre}}

\* C23: the spacing predicate (colisiona of espaciar7dias, colisiona7Dias)
\* is true exactly when some date of the set is fewer than 7 calendar days
\* from the candidate, before or after it
C23_PredicadoExacto ==
  \A r \in Aplicaciones("colisiona") :
    r.valor <=> \E x \in r.set : distancia(r.cand, x) < 7


\* C24: siguienteHabil / siguienteNoDomingo returns its input when the input
\* is not a Sunday and the Monday after it when it is, and its loop advances
\* at most 7 times
C24_SiguienteHabil ==
  \A r \in Aplicaciones("siguienteHabil") :
    /\ r.d % 7 # 0 => r.valor = r.d
    /\ r.d % 7 = 0 => r.valor = r.d + 1 /\ r.valor % 7 = 1
    /\ r.pasos <= 7

\* the function was applied to a Sunday and returned the Monday
C24_Testigo ==
  \E r \in Aplicaciones("siguienteHabil") :
    variante = "p005" /\ r.d % 7 = 0 /\ r.valor = r.d + 1 /\ r.pasos = 1


\* C25: in part_005 the start dates of the open records stay pairwise at
\* least 7 days apart through every sequence of scheduling requests, depot
\* batches and closes that run one after the other
C25_AbiertosEspaciados ==
  variante = "p005" =>
    \A i, j \in DOMAIN mants :
      (i # j /\ mants[i].fecha_fin = SinFecha /\ mants[j].fecha_fin = SinFecha)
        => distancia(mants[i].fecha_inicio, mants[j].fecha_inicio) >= 7

\* two requests inserted open records exactly 7 days apart
C25_Testigo ==
  /\ variante = "p005"
  /\ \E i, j \in DOMAIN mants :
       /\ i < j
       /\ mants[i].motivo # "inicial" /\ mants[j].motivo # "inicial"
       /\ mants[i].fecha_fin = SinFecha /\ mants[j].fecha_fin = SinFecha
       /\ mants[j].fecha_inicio = mants[i].fecha_inicio + 7


\* every vehicle has at most one open record in table M
aLoSumoUnAbierto(M) ==
  \A i, j \in DOMAIN M :
    (M[i].unidad_id = M[j].unidad_id /\ M[i].fecha_fin = SinFecha
       /\ M[j].fecha_fin = SinFecha) => i = j

\* C26: (part_005, part_004) a close request on any existing record, open or
\* already closed, made in a state where every vehicle has at most one open
\* record leaves every vehicle with at most one open record
C26_UnAbiertoPorUnidad ==
  [][(variante \in {"p005", "p004"} /\ mants' # mants /\ res' # <<>>
        /\ res'[1].op = "cerrar" /\ aLoSumoUnAbierto(mants)) =>
       aLoSumoUnAbierto(mants')]_vars


\* C27: (part_005, part_003) every closed record has its fecha_fin on or
\* after its fecha_inicio
C27_DuracionNoNegativa ==
  variante \in {"p005", "p003"} =>
    \A i \in DOMAIN mants :
      mants[i].fecha_fin # SinFecha => mants[i].fecha_fin >= mants[i].fecha_inicio


\* C28: in part_005 the snapshot a call consulted holds exactly the start
\* dates of the records that were open when it was read, and in a close the
\* record just closed is not among those records
C28_SnapshotDeAbiertos ==
  \A r \in Llamadas :
    variante = "p005" =>
      /\ r.set = {previos(r)[i].fecha_inicio :
                    i \in {j \in DOMAIN previos(r) :
                             previos(r)[j].fecha_fin = SinFecha}}
      /\ r.op = "cerrar" => previos(r)[r.cerrado].fecha_fin = r.hoy

\* a close rescheduled the vehicle fewer than 7 days from the start date of
\* the record it had just closed
C28_Testigo ==
  \E r \in Llamadas :
    /\ variante = "p005" /\ r.op = "cerrar"
    /\ previos(r)[r.cerrado].fecha_inicio \notin r.set
    /\ distancia(r.fecha, previos(r)[r.cerrado].fecha_inicio) < 7
    /\ mants[r.id].fecha_inicio = r.fecha


\* the later of the date f and the latest date of setF plus 7 days
topeEspaciado(f, setF) ==
  LET cotas == {f} \cup {x + 7 : x \in setF}
  IN CHOOSE m \in cotas : \A x \in cotas : x <= m

\* C29: on a finite calendar the day-advancing loops end on a date that
\* satisfies their exit test (espaciar7dias: no Sunday, no collision;
\* asignarFechaConCapacidad: also a depot count below the capacity;
\* fechaSinChoque: no open record on the date), and espaciar7dias returns a
\* date no later than one day after the later of its input and the latest
\* snapshot date plus 7 days
C29_BuclesTerminan ==
  /\ \A r \in Aplicaciones("espaciar7dias") :
       /\ r.valor >= r.f
       /\ ~esDomingo(r.valor) /\ ~colisiona(r.valor, r.frac, r.set)
       /\ r.valor <= topeEspaciado(r.f, r.set) + 1
  /\ \A r \in Aplicaciones("asignarFechaConCapacidad") :
       /\ r.valor >= r.base
       /\ ~esDomingo(r.valor) /\ ~colisiona(r.valor, 0, r.set)
       /\ cntCedisFecha(mants, r.cedis, r.valor) < capacidadPorCedis(r.cedis)
  /\ \A r \in Aplicaciones("fechaSinChoque") :
       /\ r.valor >= r.d
       /\ \A i \in DOMAIN mants :
            (mants[i].fecha_fin = SinFecha /\ mants[i].unidad_id # r.excl)
              => mants[i].fecha_inicio # r.valor

\* espaciar7dias ran through the fully booked calendar of the fleet and
\* returned the first working day 7 days after its last date
C29_Testigo ==
  \E r \in Aplicaciones("espaciar7dias") :
    /\ Cardinality(r.set) = NFlota
    /\ \E x \in r.set : r.f = x
    /\ r.valor >= topeEspaciado(r.f, r.set)


\* a date that is no Sunday and at least 7 calendar days from every date of
\* the snapshot
fechaValida(d, setF) ==
  ~esDomingo(d) /\ \A x \in setF : distancia(d, x) >= 7

\* espaciar7dias returns a valid date and skips no valid date from its input on
C30_Espaciar ==
  \A r \in Aplicaciones("espaciar7dias") :
    /\ fechaValida(r.valor, r.set)
    /\ \A d \in r.f..(r.valor - 1) : ~fechaValida(d, r.set)

\* a valid date on which the pool of the depot has a free place
fechaConCupo(d, r) ==
  /\ fechaValida(d, r.set)
  /\ cntTaller(mants, unidades, r.cedis, d) < workshopInfo(r.cedis).maxPorDia

\* primerDiaDisponible skips no valid date with capacity from the normalized
\* base on, and the date it returns from inside the loop is one
C30_PrimerDia ==
  \A r \in Aplicaciones("primerDiaDisponible") :
    /\ r.ok => fechaConCupo(r.valor, r)
    /\ \A d \in r.normal..(r.valor - 1) : ~fechaConCupo(d, r)

\* C30: espaciar7dias returns the earliest date at or after its input that is
\* neither a Sunday nor fewer than 7 days from a snapshot date, and
\* primerDiaDisponible the earliest such date with free capacity at or after
\* the normalized base: no valid earlier date is skipped
C30_PrimeraFechaValida == C30_Espaciar /\ C30_PrimerDia

\* primerDiaDisponible went past a taken week and returned a later date
C30_TestigoPrimerDia ==
  \E r \in Aplicaciones("primerDiaDisponible") :
    r.ok /\ r.valor > r.normal /\ r.set # {}



\* C31: the handlers of part_004 apply primerDiaDisponible to the date that
\* calcularProximaFecha returned (itself a result of primerDiaDisponible) on
\* the same calendar and day, and the second application returns that date
C31_SegundaAplicacionIgual ==
  \A r \in Llamadas :
    (variante = "p004" /\ r.op \in {"programar", "cerrar"}) =>
      r.fecha = r.previa



\* C32: on a calendar nobody else writes, every candidate that passes the
\* 7-day spacing check has a count of 0 in the depot (part_005) or the pool
\* (part_004), and the function returns the date that Sunday-skipping and
\* 7-day spacing alone give, for capacity 1 and capacity 5
C32_CupoNuncaRechaza ==
  /\ \A r \in Aplicaciones("asignarFechaConCapacidad") :
       /\ \A d \in r.base..r.valor :
            (~esDomingo(d) /\ ~colisiona(d, 0, r.set)) =>
              cntCedisFecha(mants, r.cedis, d) = 0
       /\ r.valor = espaciar7dias(siguienteHabil(r.base), 0, r.set)
  /\ \A r \in Aplicaciones("primerDiaDisponible") :
       /\ \A d \in r.normal..r.valor :
            ~colisiona7Dias(d, r.set) =>
              cntTaller(mants, unidades, r.cedis, d) = 0
       /\ r.ok => /\ ~colisiona7Dias(r.valor, r.set)
                  /\ \A d \in r.normal..(r.valor - 1) :
                       esDomingo(d) \/ colisiona7Dias(d, r.set)

\* asignarFechaConCapacidad returned, for a depot of capacity 1, a date on
\* which a closed record of that depot starts, a week after an open one
C32_Testigo ==
  \E r \in Aplicaciones("asignarFechaConCapacidad") :
    /\ capacidadPorCedis(r.cedis) = 1 /\ r.set # {}
    /\ r.valor > r.base
    /\ \E i \in DOMAIN mants : /\ mants[i].cedis_id = r.cedis
                               /\ mants[i].fecha_fin # SinFecha
                               /\ mants[i].fecha_inicio = r.valor

\* the same with a depot of capacity 5
C32_TestigoCupo5 ==
  \E r \in Aplicaciones("asignarFechaConCapacidad") :
    capacidadPorCedis(r.cedis) = 5 /\ r.set # {} /\ r.valor > r.base



\* the table unidades that goes with the calendar M
flotaDe(M) ==
  [u \in Pedibles \cup {M[i].unidad_id : i \in DOMAIN M} |->
     [cedis_id |-> cedisDeUnidad(u), estado |-> estadoInicial(M, u)]]

\* the open records of M of vehicles of the workshop pool of cedisId, as
\* pairs of vehicle and start date
delTaller(M, cedisId) ==
  {<<M[i].unidad_id, M[i].fecha_inicio>> :
     i \in {j \in DOMAIN M :
              /\ M[j].fecha_fin = SinFecha
              /\ cedisDeUnidad(M[j].unidad_id) \in workshopInfo(cedisId).cedisIds}}

\* C33: primerDiaDisponible called with a depot returns the same date on any
\* two calendars that differ only in open records of vehicles whose depot
\* lies outside the workshop pool of that depot
C33_AjenosNoInfluyen ==
  \A r \in Aplicaciones("primerDiaDisponible") :
    r.cedis # SinCedis =>
      \A M2 \in Calendarios(hoy) :
        delTaller(M2, r.cedis) = delTaller(mants, r.cedis) =>
          primerDiaDisponible(M2, flotaDe(M2), r.base, hoy, r.cedis) = r.valor

\* primerDiaDisponible returned for a Cartago vehicle a date fewer than 7
\* days from an open visit of a vehicle of CEDIS Norte
C33_Testigo ==
  \E r \in Aplicaciones("primerDiaDisponible") :
    /\ r.cedis # SinCedis
    /\ delTaller(mants, r.cedis) # {}
    /\ \E i \in DOMAIN mants :
         /\ mants[i].fecha_fin = SinFecha
         /\ cedisDeUnidad(mants[i].unidad_id) \notin workshopInfo(r.cedis).cedisIds
         /\ distancia(mants[i].fecha_inicio, r.valor) < 7



\* a day that is no Sunday and on which no open record of a vehicle other
\* than the excluded one starts
diaSinChoque(x, excl) ==
  /\ ~esDomingo(x)
  /\ \A i \in DOMAIN mants :
       (mants[i].fecha_fin = SinFecha /\ mants[i].unidad_id # excl)
         => mants[i].fecha_inicio # x

\* C34: for a base date that is no Sunday, fechaSinChoque returns the earliest
\* date at or after the base that is no Sunday and on which no open record of
\* a vehicle other than the excluded plate starts; with no excluded plate no
\* open record at all starts on the returned date
C34_PrimerDiaSinChoque ==
  \A r \in Aplicaciones("fechaSinChoque") :
    ~esDomingo(r.d) =>
      /\ r.valor >= r.d
      /\ diaSinChoque(r.valor, r.excl)
      /\ \A x \in r.d..(r.valor - 1) : ~diaSinChoque(x, r.excl)
      /\ r.excl = SinPlaca =>
           \A i \in DOMAIN mants :
             mants[i].fecha_fin = SinFecha => mants[i].fecha_inicio # r.valor

\* fechaSinChoque stepped over the open visit of another vehicle and returned
\* the day on which the open visit of the excluded plate starts
C34_Testigo ==
  \E r \in Aplicaciones("fechaSinChoque") :
    /\ ~esDomingo(r.d) /\ r.excl # SinPlaca /\ r.valor > r.d
    /\ \E i \in DOMAIN mants : /\ mants[i].fecha_fin = SinFecha
                               /\ mants[i].unidad_id = r.excl
                               /\ mants[i].fecha_inicio = r.valor



\* the batch runs of POST /ai/programar in the last step
Lotes == Aplicaciones("ai-programar")

C36_PreviewIgualAlLote ==
  [][(/\ res # <<>> /\ res[1].op = "consulta" /\ res[1].ruta = "ai-preview"
      /\ res' # <<>> /\ res'[1].op = "ai-programar")
     => /\ res'[1].asignadas = res[1].simulacion
        /\ \A i \in DOMAIN res[1].simulacion, k \in DOMAIN mants :
             mants[k].fecha_fin = SinFecha =>
               mants[k].fecha_inicio # res[1].simulacion[i].fecha]_vars



\* the records a step appended to the table
insertados == {i \in DOMAIN mants' : i > Len(mants)}

\* the step is a run of the depot batch for the depot c that inserted
esLote(c) ==
  /\ res' # <<>> /\ res' # res
  /\ \A i \in DOMAIN res' : res'[i].op = "lote" /\ res'[i].cedis = c

\* C37: a run of the depot batch inserts exactly one open PREVENTIVO record
\* for each ACTIVA unit of the depot that had no open record and none for any
\* other unit, and a run that follows a run for the same depot inserts nothing
C37_LoteUnoPorUnidadLibre ==
  [][\A c \in Cedis :
       esLote(c) =>
         /\ \A i \in insertados :
              /\ mants'[i].unidad_id \in unidadesLibres(mants, unidades, c)
              /\ mants'[i].tipo = "PREVENTIVO"
              /\ mants'[i].fecha_fin = SinFecha
         /\ \A u \in unidadesLibres(mants, unidades, c) :
              Cardinality({i \in insertados : mants'[i].unidad_id = u}) = 1
         /\ ~(res # <<>> /\ res[1].op = "lote" /\ res[1].cedis = c)]_vars

\* the same for the batch of part_005 alone
C37_Lote005 ==
  [][variante = "p005" =>
       \A c \in Cedis :
         esLote(c) =>
           /\ \A i \in insertados :
                /\ mants'[i].unidad_id \in unidadesLibres(mants, unidades, c)
                /\ mants'[i].tipo = "PREVENTIVO"
                /\ mants'[i].fecha_fin = SinFecha
           /\ \A u \in unidadesLibres(mants, unidades, c) :
                Cardinality({i \in insertados : mants'[i].unidad_id = u}) = 1
           /\ ~(res # <<>> /\ res[1].op = "lote" /\ res[1].cedis = c)]_vars



\* the answer of DELETE /mantenimientos/:id that a step produced
respuestaEliminar ==
  /\ res' # <<>>
  /\ res'[1].op \in {"rechazo", "eliminado"} /\ res'[1].ruta = "eliminar"

\* C38: DELETE /mantenimientos/:id answers 400 for an open record and 404
\* for an id that does not exist and leaves every record unchanged in both
\* cases; a record that is removed was closed, and no other record changes
C38_SoloCerradosSeEliminan ==
  [][respuestaEliminar =>
       LET p == res'[1].pedido
       IN /\ (existeMant(mants, p) /\ mants[p].fecha_fin = SinFecha)
               => (res'[1].status = 400 /\ mants' = mants)
          /\ ~existeMant(mants, p)
               => (res'[1].status = 404 /\ mants' = mants)
          /\ mants' # mants
               => /\ existeMant(mants, p) /\ mants[p].fecha_fin # SinFecha
                  /\ DOMAIN mants' = DOMAIN mants
                  /\ \A i \in DOMAIN mants : i # p => mants'[i] = mants[i]
          /\ unidades' = unidades]_vars

\* a closed record was removed from a table that also holds an open one
C38_Testigo ==
  /\ res # <<>> /\ res[1].op = "eliminado"
  /\ mants[res[1].pedido] = Borrado
  /\ \E i \in DOMAIN mants : mants[i] # Borrado /\ mants[i].fecha_fin = SinFecha

\* a request to remove an open record was answered with 400
C38_TestigoAbierto ==
  /\ res # <<>> /\ res[1].op = "rechazo" /\ res[1].ruta = "eliminar"
  /\ res[1].status = 400
  /\ mants[res[1].pedido].fecha_fin = SinFecha



\* C39: the interval of aiPreventivePlan follows the visit-count rule and
\* the corrective cap (35 days for 5 or more records of the unit, 40 for 3 or
\* 4, 45 otherwise, and at most 30 when the most recent record is
\* CORRECTIVO), and fecha_sugerida is the reference date plus that interval
C39_PlanSegunReglas ==
  \A r \in Aplicaciones("aiPreventivePlan") :
    LET porVeces == IF r.veces >= 5 THEN 35 ELSE IF r.veces >= 3 THEN 40 ELSE 45
    IN /\ r.dias_intervalo <= porVeces
       /\ r.tipoUlt = "CORRECTIVO" => r.dias_intervalo <= 30
       /\ r.tipoUlt # "CORRECTIVO" => r.dias_intervalo = porVeces
       /\ r.fecha_sugerida = r.ref + r.dias_intervalo

\* the same when no API client is configured (the deterministic fallback)
C39_SinCliente ==
  \A r \in Aplicaciones("aiPreventivePlan") :
    ~r.cliente =>
      (r.dias_intervalo <=
         (IF r.tipoUlt = "CORRECTIVO" THEN 30
          ELSE IF r.veces >= 5 THEN 35 ELSE IF r.veces >= 3 THEN 40 ELSE 45))

====
